---------------------------- MODULE Spec2Model ----------------------------
(***************************************************************************)
(* Model of the duckdecode steganographic decoder (src/duck_decode_cli.py; *)
(* the GUI, Kivy and Android shells carry verbatim copies of the same      *)
(* functions).                                                             *)
(*                                                                         *)
(* Bytes are integers 0..255, bit sequences are sequences over {0,1},      *)
(* Python str values are sequences of Unicode code points, bytes values    *)
(* are sequences of bytes.                                                 *)
(***************************************************************************)
EXTENDS Integers, Sequences, FiniteSets, TLC

(***************************************************************************)
(* Bounds of the model.                                                    *)
(***************************************************************************)
\* longest payload data (bytes) the enumerated payloads carry
MaxDataLen == 2

(***************************************************************************)
(* Program constants.                                                      *)
(***************************************************************************)
\* WATERMARK_SKIP_W_RATIO = 0.40 and WATERMARK_SKIP_H_RATIO = 0.08, as percentages
WATERMARK_SKIP_W_PCT == 40
WATERMARK_SKIP_H_PCT == 8
\* bytes of the password hash and of the salt in a protected header
HASH_LEN == 32
SALT_LEN == 16
\* bits of the big-endian length prefix of the bitstream
LEN_PREFIX_BITS == 32
\* number of channels of the RGB pixel buffer (img.convert("RGB"))
CHANNELS == 3

\* the opposite search order, deepest first (not what line 142 does)
KS_Descending == <<8, 6, 2>>

\* the bit depths of the search, in the order of the for loop
KS == <<2, 6, 8>>

\* error messages (the English half of each bilingual message)
ErrInsufficientData == "Insufficient image data."
ErrPayloadLength == "Payload length invalid."
ErrHeaderCorrupted == "Header corrupted."
ErrDataLength == "Data length mismatch."
ErrPasswordRequired == "Password required."
ErrWrongPassword == "Wrong password."
ErrDecodeFailed == "Decoding failed"

(***************************************************************************)
(* Bits and bytes.                                                         *)
(***************************************************************************)
\* np.unpackbits(v, bitorder="big") of one uint8: its 8 bits, most significant first
Unpack8(v) == [i \in 1..8 |-> (v \div 2^(8 - i)) % 2]

\* a value at least as large as every length the model compares a u32 field with
U32_SATURATED == 16777216

\* struct.unpack(">I", b)[0] of 4 bytes.  Python integers are unbounded; the
\* value is exact below 2^24 and saturates at 2^24 above, which decides every
\* comparison with a length below 2^24 the same way.
UnpackU32BE(b) ==
    IF b[1] > 0 THEN U32_SATURATED
    ELSE b[2] * 65536 + b[3] * 256 + b[4]

\* a + b modulo 256 on two bytes (not what ^ does)
Add8(a, b) == (a + b) % 256

\* a ^ b on two bytes
Xor8(a, b) ==
    LET x(i) == IF (a \div 2^i) % 2 = (b \div 2^i) % 2 THEN 0 ELSE 2^i
    IN  x(0) + x(1) + x(2) + x(3) + x(4) + x(5) + x(6) + x(7)

Min(a, b) == IF a < b THEN a ELSE b

\* bytes(a ^ b for a, b in zip(data, ks))
XorBytes(data, ks) == [i \in 1..Min(Len(data), Len(ks)) |-> Xor8(data[i], ks[i])]

(***************************************************************************)
(* Text conversions.                                                       *)
(***************************************************************************)
\* one lowercase hexadecimal digit as an ASCII code
HexDigit(d) == IF d < 10 THEN 48 + d ELSE 87 + d

\* bytes.hex(): two lowercase hex digits per byte (a str, as code points)
Hex(bs) == [i \in 1..(2 * Len(bs)) |->
              IF i % 2 = 1 THEN HexDigit(bs[(i + 1) \div 2] \div 16)
                           ELSE HexDigit(bs[i \div 2] % 16)]

\* str(counter): the decimal digits of a natural number (a str, as code points)
RECURSIVE DecimalStr(_)
DecimalStr(n) == IF n < 10 THEN <<48 + n>>
                 ELSE Append(DecimalStr(n \div 10), 48 + (n % 10))

\* the UTF-8 bytes of one code point below 0x10000 (no surrogates in the model)
Utf8EncodeChar(cp) ==
    IF cp < 128 THEN <<cp>>
    ELSE IF cp < 2048 THEN <<192 + (cp \div 64), 128 + (cp % 64)>>
    ELSE <<224 + (cp \div 4096), 128 + ((cp \div 64) % 64), 128 + (cp % 64)>>

\* str.encode("utf-8")
RECURSIVE Utf8Encode(_)
Utf8Encode(s) == IF s = <<>> THEN <<>>
                 ELSE Utf8EncodeChar(Head(s)) \o Utf8Encode(Tail(s))

IsCont(b) == b >= 128 /\ b <= 191

\* number of continuation bytes a UTF-8 lead byte announces; -1: not a lead byte
Utf8Need(b) ==
    IF b < 128 THEN 0
    ELSE IF b >= 194 /\ b <= 223 THEN 1
    ELSE IF b >= 224 /\ b <= 239 THEN 2
    ELSE IF b >= 240 /\ b <= 244 THEN 3
    ELSE -1

\* whether c is a legal first continuation byte after lead byte b
Utf8SecondOk(b, c) ==
    IF b = 224 THEN c >= 160 /\ c <= 191
    ELSE IF b = 237 THEN c >= 128 /\ c <= 159
    ELSE IF b = 240 THEN c >= 144 /\ c <= 191
    ELSE IF b = 244 THEN c >= 128 /\ c <= 143
    ELSE IsCont(c)

\* bytes.decode("utf-8", errors="ignore") from position i on: a well-formed
\* sequence yields its code point, an ill-formed one is dropped up to (not
\* including) the byte that breaks it, a truncated one is dropped to the end
RECURSIVE Utf8DecodeFrom(_, _)
Utf8DecodeFrom(bs, i) ==
    IF i > Len(bs) THEN <<>>
    ELSE LET b == bs[i]
             need == Utf8Need(b)
             has(j) == i + j <= Len(bs)
         IN  IF need = 0 THEN <<b>> \o Utf8DecodeFrom(bs, i + 1)
             ELSE IF need = -1 THEN Utf8DecodeFrom(bs, i + 1)
             ELSE IF ~has(1) THEN <<>>
             ELSE IF ~Utf8SecondOk(b, bs[i + 1]) THEN Utf8DecodeFrom(bs, i + 1)
             ELSE IF need = 1
                  THEN <<(b - 192) * 64 + (bs[i + 1] - 128)>> \o Utf8DecodeFrom(bs, i + 2)
             ELSE IF ~has(2) THEN <<>>
             ELSE IF ~IsCont(bs[i + 2]) THEN Utf8DecodeFrom(bs, i + 2)
             ELSE IF need = 2
                  THEN <<(b - 224) * 4096 + (bs[i + 1] - 128) * 64 + (bs[i + 2] - 128)>>
                       \o Utf8DecodeFrom(bs, i + 3)
             ELSE IF ~has(3) THEN <<>>
             ELSE IF ~IsCont(bs[i + 3]) THEN Utf8DecodeFrom(bs, i + 3)
             ELSE <<(b - 240) * 262144 + (bs[i + 1] - 128) * 4096
                    + (bs[i + 2] - 128) * 64 + (bs[i + 3] - 128)>>
                  \o Utf8DecodeFrom(bs, i + 4)

Utf8DecodeIgnore(bs) == Utf8DecodeFrom(bs, 1)

(***************************************************************************)
(* hashlib.sha256.  The digest is modelled by a deterministic 32-byte      *)
(* mixing function of the message bytes; nothing in the decoder depends on *)
(* more than determinism and the digest length.                            *)
(***************************************************************************)
RECURSIVE Absorb(_, _, _)
Absorb(msg, i, acc) ==
    IF i > Len(msg) THEN acc
    ELSE Absorb(msg, i + 1, (acc * 131 + msg[i] + 1) % 65521)

Sha256(msg) ==
    LET s == Absorb(msg, 1, 7 + Len(msg))
    IN  [i \in 1..HASH_LEN |-> (((s + i) * ((s % 251) + 2 * i + 1)) \div 3) % 256]

(***************************************************************************)
(* _extract_payload_with_k.  A pixel buffer arr is a record                *)
(* [h, w, px]: height, width and the h*w*3 samples in raster               *)
(* (row, col, channel) order, as arr.reshape(-1) yields them.              *)
(***************************************************************************)
\* int(w * WATERMARK_SKIP_W_RATIO): the product of a non-negative integer and
\* the double nearest 0.40 truncates to floor(40*w/100) (the double lies
\* above 0.40 by less than 3e-17)
SkipW(w) == (w * WATERMARK_SKIP_W_PCT) \div 100

\* int(h * WATERMARK_SKIP_H_RATIO), likewise floor(8*h/100)
SkipH(h) == (h * WATERMARK_SKIP_H_PCT) \div 100

\* a rectangle one row and one column larger, [:skip_h + 1, :skip_w + 1] (not
\* what line 40 does)
Mask2d_Inclusive(h, w, r, c) ==
    ~(SkipW(w) > 0 /\ SkipH(h) > 0 /\ r <= SkipH(h) /\ c <= SkipW(w))

\* mask2d[r, c]: TRUE where the pixel is used; rows and columns count from 0
Mask2d(h, w, r, c) ==
    ~(SkipW(w) > 0 /\ SkipH(h) > 0 /\ r < SkipH(h) /\ c < SkipW(w))

\* mask3d.reshape(-1): the pixel's mask repeated for each of its channels,
\* indexed from 1 like px
Mask3dFlat(h, w) ==
    [i \in 1..(h * w * CHANNELS) |->
        Mask2d(h, w, (i - 1) \div (CHANNELS * w), ((i - 1) \div CHANNELS) % w)]

\* idxs = np.flatnonzero(mask3d.reshape(-1)): the used sample positions, ascending
Idxs(h, w) ==
    LET m == Mask3dFlat(h, w)
    IN  SelectSeq([i \in 1..(h * w * CHANNELS) |-> i], LAMBDA i : m[i])

\* the low k bits of every sample, the masked ones too (not what flat[idxs] does)
Vals_All(arr, k) == [j \in 1..Len(arr.px) |-> arr.px[j] % (2^k)]

\* vals = (flat[idxs] & ((1 << k) - 1)).astype(np.uint8)
Vals(arr, k) ==
    LET idxs == Idxs(arr.h, arr.w)
    IN  [j \in 1..Len(idxs) |-> arr.px[idxs[j]] % (2^k)]

\* the first k of the 8 bits of each value, [:, :k]: what line 45 would give
\* without the -k in [:, -k:]
ExtractBits_FirstK(arr, k) ==
    LET vals == Vals(arr, k)
    IN  [i \in 1..(Len(vals) * k) |->
            Unpack8(vals[((i - 1) \div k) + 1])[((i - 1) % k) + 1]]

\* bits = np.unpackbits(vals, bitorder="big").reshape(-1, 8)[:, -k:].reshape(-1):
\* of each value the last k of its 8 bits, value after value
ExtractBits(arr, k) ==
    LET vals == Vals(arr, k)
    IN  [i \in 1..(Len(vals) * k) |->
            Unpack8(vals[((i - 1) \div k) + 1])[(8 - k) + ((i - 1) % k) + 1]]

\* np.packbits(bits[from : from + 8*n], bitorder="big").tobytes(), from 0-based
PackBitsAt(bits, from, n) ==
    [j \in 1..n |->
        bits[from + 8*j - 7] * 128 + bits[from + 8*j - 6] * 64
      + bits[from + 8*j - 5] * 32 + bits[from + 8*j - 4] * 16
      + bits[from + 8*j - 3] * 8 + bits[from + 8*j - 2] * 4
      + bits[from + 8*j - 1] * 2 + bits[from + 8*j]]

\* a check that also rejects a payload ending on the last bit (not what line 53 does)
LengthInvalid_Strict(header_len, total_bits, nbits) ==
    header_len <= 0 \/ total_bits >= nbits

\* line 53: if header_len <= 0 or total_bits > len(bits)
LengthInvalid(header_len, total_bits, nbits) == header_len <= 0 \/ total_bits > nbits

\* an extraction that reports a bitstream too short for its prefix as a bad
\* length (not what lines 47-48 do)
PayloadOfBits_LengthFirst(bits, nbits) ==
    IF nbits < LEN_PREFIX_BITS
    THEN [ok |-> FALSE, err |-> ErrPayloadLength, header |-> <<>>, nbits |-> nbits]
    ELSE LET length_bytes == PackBitsAt(bits, 0, LEN_PREFIX_BITS \div 8)
             header_len == UnpackU32BE(length_bytes)
             total_bits == LEN_PREFIX_BITS + header_len * 8
         IN  IF LengthInvalid(header_len, total_bits, nbits)
             THEN [ok |-> FALSE, err |-> ErrPayloadLength, header |-> <<>>, nbits |-> nbits]
             ELSE [ok |-> TRUE, err |-> "", nbits |-> nbits,
                   header |-> PackBitsAt(bits, LEN_PREFIX_BITS, header_len)]

\* lines 47-56: the length prefix, the two checks and the header bytes, given
\* the bits and their number len(bits)
PayloadOfBits(bits, nbits) ==
    IF nbits < LEN_PREFIX_BITS
    THEN [ok |-> FALSE, err |-> ErrInsufficientData, header |-> <<>>, nbits |-> nbits]
    ELSE LET length_bytes == PackBitsAt(bits, 0, LEN_PREFIX_BITS \div 8)
             header_len == UnpackU32BE(length_bytes)
             total_bits == LEN_PREFIX_BITS + header_len * 8
         IN  IF LengthInvalid(header_len, total_bits, nbits)
             THEN [ok |-> FALSE, err |-> ErrPayloadLength, header |-> <<>>, nbits |-> nbits]
             ELSE [ok |-> TRUE, err |-> "", nbits |-> nbits,
                   header |-> PackBitsAt(bits, LEN_PREFIX_BITS, header_len)]

\* the result carries len(bits) besides the header bytes or the error raised
ExtractPayloadWithK(arr, k) ==
    PayloadOfBits(ExtractBits(arr, k), Len(Idxs(arr.h, arr.w)) * k)

(***************************************************************************)
(* _generate_key_stream.                                                   *)
(***************************************************************************)
\* key_material = (password + salt.hex()).encode("utf-8")
KeyMaterial(password, salt) == Utf8Encode(password \o Hex(salt))

\* a loop whose counter starts at the length asked for (not what line 64 does)
RECURSIVE KeyStreamLoop_FromLength(_, _, _, _)
KeyStreamLoop_FromLength(key_material, length, out, counter) ==
    IF Len(out) < length
    THEN KeyStreamLoop_FromLength(key_material, length,
                       out \o Sha256(key_material \o Utf8Encode(DecimalStr(counter + length))),
                       counter + 1)
    ELSE out

\* a loop that runs while len(out) <= length (not what line 65 does)
RECURSIVE KeyStreamLoop_OneMore(_, _, _, _)
KeyStreamLoop_OneMore(key_material, length, out, counter) ==
    IF Len(out) <= length
    THEN KeyStreamLoop_OneMore(key_material, length,
                       out \o Sha256(key_material \o Utf8Encode(DecimalStr(counter))),
                       counter + 1)
    ELSE out

\* the while loop: one SHA-256 block per counter until len(out) >= length
RECURSIVE KeyStreamLoop(_, _, _, _)
KeyStreamLoop(key_material, length, out, counter) ==
    IF Len(out) < length
    THEN KeyStreamLoop(key_material, length,
                       out \o Sha256(key_material \o Utf8Encode(DecimalStr(counter))),
                       counter + 1)
    ELSE out

GenerateKeyStream(password, salt, length) ==
    SubSeq(KeyStreamLoop(KeyMaterial(password, salt), length, <<>>, 0), 1, length)

(***************************************************************************)
(* _parse_header.  The result records the outcome (ok with data and ext,   *)
(* or the error raised) and, as reads, how far into the header the call    *)
(* asked to read: 1 + the largest index it used, or the largest end of a   *)
(* slice it took.  Python raises IndexError for an index past the end,     *)
(* clamps a slice, and struct.unpack raises struct.error for a short       *)
(* buffer.                                                                 *)
(***************************************************************************)
ErrIndex == "index out of range"
ErrStruct == "unpack requires a buffer of 4 bytes"

ParseFail(e, reads) == [ok |-> FALSE, err |-> e, data |-> <<>>, ext |-> <<>>, reads |-> reads]

ParseOk(data, e, reads) == [ok |-> TRUE, err |-> "", data |-> data, ext |-> e, reads |-> reads]

\* header[a:b] with 0-based a <= b
Slice(header, a, b) == SubSeq(header, a + 1, Min(b, Len(header)))

\* line 74: if len(header) < 1
FlagMissing(header) == Len(header) < 1

\* line 81: if len(header) < idx + 32 + 16
HashSaltMissing(header, idx) == Len(header) < idx + HASH_LEN + SALT_LEN

\* line 87: if len(header) < idx + 1
ExtLenMissing(header, idx) == Len(header) < idx + 1

\* a check that forgets the 4 bytes of data_len (not what line 91 does)
ExtOrDataLenMissing_NoLenField(header, idx, ext_len) == Len(header) < idx + ext_len

\* line 91: if len(header) < idx + ext_len + 4
ExtOrDataLenMissing(header, idx, ext_len) == Len(header) < idx + ext_len + 4

\* a check that only catches a remainder that is too short (not what line 98 does)
DataLenMismatch_ShortOnly(data, data_len) == Len(data) < data_len

\* line 98: if len(data) != data_len
DataLenMismatch(data, data_len) == Len(data) # data_len

\* a check that lets the empty password through to the hash comparison (not
\* what line 102 does)
PasswordMissing_Never(pw) == FALSE

\* line 102: if not password
PasswordMissing(pw) == pw = <<>>

\* lines 105-106: check_hash != pwd_hash
HashMismatch(pw, salt, pwd_hash) == Sha256(Utf8Encode(pw \o Hex(salt))) # pwd_hash

\* a password branch that checks the password but returns the stored bytes (not
\* what lines 108-110 do)
ParseFinish_NoDecrypt(has_pwd, pwd_hash, salt, data, e, pw, reads) ==
    IF ~has_pwd THEN ParseOk(data, e, reads)
    ELSE IF PasswordMissing(pw) THEN ParseFail(ErrPasswordRequired, reads)
    ELSE IF HashMismatch(pw, salt, pwd_hash) THEN ParseFail(ErrWrongPassword, reads)
    ELSE ParseOk(data, e, reads)

\* a password branch taken whatever the flag says (not what line 100 does)
ParseFinish_AlwaysDecrypt(has_pwd, pwd_hash, salt, data, e, pw, reads) ==
    IF PasswordMissing(pw) THEN ParseFail(ErrPasswordRequired, reads)
    ELSE IF HashMismatch(pw, salt, pwd_hash) THEN ParseFail(ErrWrongPassword, reads)
    ELSE LET ks == GenerateKeyStream(pw, salt, Len(data))
         IN  ParseOk(XorBytes(data, ks), e, reads)

\* lines 100-110: the password branch
ParseFinish(has_pwd, pwd_hash, salt, data, e, pw, reads) ==
    IF ~has_pwd THEN ParseOk(data, e, reads)
    ELSE IF PasswordMissing(pw) THEN ParseFail(ErrPasswordRequired, reads)
    ELSE IF HashMismatch(pw, salt, pwd_hash) THEN ParseFail(ErrWrongPassword, reads)
    ELSE LET ks == GenerateKeyStream(pw, salt, Len(data))
         IN  ParseOk(XorBytes(data, ks), e, reads)

\* lines 89-99: from ext_len on; idx is the 0-based position of ext_len
ParseFromExt(header, idx, has_pwd, pwd_hash, salt, pw) ==
    IF ExtLenMissing(header, idx) THEN ParseFail(ErrHeaderCorrupted, idx)
    ELSE IF idx >= Len(header) THEN ParseFail(ErrIndex, idx + 1)
    ELSE
    LET ext_len == header[idx + 1]
        idx3 == idx + 1
    IN  IF ExtOrDataLenMissing(header, idx3, ext_len)
        THEN ParseFail(ErrHeaderCorrupted, idx3)
        ELSE
        LET e == Utf8DecodeIgnore(Slice(header, idx3, idx3 + ext_len))
            idx4 == idx3 + ext_len
            len_bytes == Slice(header, idx4, idx4 + 4)
            idx5 == idx4 + 4
        IN  IF Len(len_bytes) # 4 THEN ParseFail(ErrStruct, idx5)
            ELSE
            LET data_len == UnpackU32BE(len_bytes)
                data == Slice(header, idx5, Len(header))
            IN  IF DataLenMismatch(data, data_len)
                THEN ParseFail(ErrDataLength, Len(header))
                ELSE ParseFinish(has_pwd, pwd_hash, salt, data, e, pw, Len(header))

\* any first byte but 0 taken for the flag of a protected header (not what
\* line 76 does)
HasPwd_NonZero(header) == header[1] # 0

\* line 76: has_pwd = header[0] == 1
HasPwd(header) == header[1] = 1

\* lines 73-88: the flag and, in a protected header, the hash and the salt
ParseHeader(header, pw) ==
    IF FlagMissing(header) THEN ParseFail(ErrHeaderCorrupted, 0)
    ELSE IF Len(header) < 1 THEN ParseFail(ErrIndex, 1)
    ELSE
    LET has_pwd == HasPwd(header)
        idx == 1
    IN  IF has_pwd
        THEN IF HashSaltMissing(header, idx) THEN ParseFail(ErrHeaderCorrupted, 1)
             ELSE ParseFromExt(header, idx + HASH_LEN + SALT_LEN, TRUE,
                               Slice(header, idx, idx + HASH_LEN),
                               Slice(header, idx + HASH_LEN, idx + HASH_LEN + SALT_LEN),
                               pw)
        ELSE ParseFromExt(header, idx, FALSE, <<>>, <<>>, pw)

(***************************************************************************)
(* The encoder (external to the repository): the wire format of the header *)
(* and of the bitstream, used to build the inputs of the decoder.          *)
(* A header description hd is a record                                     *)
(*   flag    the first byte                                                *)
(*   encpwd  the password the payload was protected with (str)             *)
(*   ext     the extension (str) and extb, the bytes stored for it         *)
(*   data    the payload data before encryption                            *)
(*   delta   what the stored data_len field adds to the real data length   *)
(*   cut     the number of bytes the blob is truncated to, -1 for no cut   *)
(***************************************************************************)
Salt == [i \in 1..SALT_LEN |-> (i * 17 - 17) % 256]

U32BE(n) == <<n \div 16777216, (n \div 65536) % 256, (n \div 256) % 256, n % 256>>

\* the data field: ciphertext iff the flag says protected
StoredData(hd) ==
    IF hd.flag = 1
    THEN XorBytes(hd.data, GenerateKeyStream(hd.encpwd, Salt, Len(hd.data)))
    ELSE hd.data

FullHeader(hd) ==
    <<hd.flag>>
    \o (IF hd.flag = 1 THEN Sha256(KeyMaterial(hd.encpwd, Salt)) \o Salt ELSE <<>>)
    \o <<Len(hd.extb)>> \o hd.extb
    \o U32BE(Len(hd.data) + hd.delta)
    \o StoredData(hd)

BuildHeader(hd) ==
    IF hd.cut < 0 THEN FullHeader(hd)
    ELSE SubSeq(FullHeader(hd), 1, Min(hd.cut, Len(FullHeader(hd))))

\* the bits of a byte sequence, most significant bit of each byte first
BitsOfBytes(bs) ==
    [i \in 1..(8 * Len(bs)) |-> Unpack8(bs[((i - 1) \div 8) + 1])[((i - 1) % 8) + 1]]

\* the bitstream: the declared length prefix, then the blob
Stream(prefix, blob) == BitsOfBytes(U32BE(prefix) \o blob)

\* the 1-based rank of sample position i among the samples outside the
\* watermark rectangle, 0 for a sample inside it
SampleRank(h, w, i) ==
    LET p == (i - 1) \div CHANNELS
        r == p \div w
        c == p % w
        sh == (8 * h) \div 100
        sw == (40 * w) \div 100
        inside == r < sh /\ c < sw
        before == IF r < sh THEN r * sw + Min(c, sw) ELSE sh * sw
    IN  IF inside THEN 0 ELSE (p - before) * CHANNELS + ((i - 1) % CHANNELS) + 1

\* the value of bits[from..from+k-1], most significant first, 0 past the end
BitsValue(bits, from, k) ==
    LET b(j) == IF j < k /\ from + j <= Len(bits) THEN bits[from + j] * 2^(k - 1 - j) ELSE 0
    IN  b(0) + b(1) + b(2) + b(3) + b(4) + b(5) + b(6) + b(7)

\* sample i of the cover image: constant for step 0, a ramp for step > 0, and
\* for step < 0 black but for the one sample of value cover at position -step
CoverAt(cover, step, i) ==
    IF step < 0 THEN (IF i = -step THEN cover ELSE 0)
    ELSE (cover + step * i) % 256

\* an h x w cover image with the stream written into the low k bits of the
\* samples outside the watermark rectangle, as far as it goes
Embed(bits, k, h, w, cover, step) ==
    [h |-> h, w |-> w,
     px |-> [i \in 1..(h * w * CHANNELS) |->
               LET j == SampleRank(h, w, i)
                   cv == CoverAt(cover, step, i)
               IN  IF j = 0 \/ (j - 1) * k >= Len(bits) THEN cv
                   ELSE (cv \div 2^k) * 2^k + BitsValue(bits, (j - 1) * k + 1, k)]]

\* the number of stream bits an h x w image holds at depth k
Capacity(k, h, w) ==
    k * CHANNELS * (h * w - ((8 * h) \div 100) * ((40 * w) \div 100))

(***************************************************************************)
(* Strings of the save step.                                               *)
(***************************************************************************)
\* "duck_recovered"
BaseName == <<100, 117, 99, 107, 95, 114, 101, 99, 111, 118, 101, 114, 101, 100>>
Dot == 46
\* ".binpng", ".mp4", "mp4"
DotBinpng == <<46, 98, 105, 110, 112, 110, 103>>
DotMp4 == <<46, 109, 112, 52>>
Mp4 == <<109, 112, 52>>

\* a suffix test that leaves the first character of the suffix out (not what
\* str.endswith does)
EndsWith_AfterFirst(s, suf) ==
    Len(s) >= Len(suf) - 1 /\ SubSeq(s, Len(s) - Len(suf) + 2, Len(s)) = Tail(suf)

\* str.startswith / str.endswith
StartsWith(s, pre) == Len(s) >= Len(pre) /\ SubSeq(s, 1, Len(pre)) = pre
EndsWith(s, suf) == Len(s) >= Len(suf) /\ SubSeq(s, Len(s) - Len(suf) + 1, Len(s)) = suf

\* ext.lstrip("."): every leading dot removed
RECURSIVE LStripDots(_)
LStripDots(s) == IF s # <<>> /\ Head(s) = Dot THEN LStripDots(Tail(s)) ELSE s

\* every zero byte removed, wherever it is (not what rstrip does)
RemoveZeros(bs) == SelectSeq(bs, LAMBDA x : x # 0)

\* bytes.rstrip(b"\x00"): every trailing zero byte removed
RECURSIVE RStripZeros(_)
RStripZeros(bs) ==
    IF bs # <<>> /\ bs[Len(bs)] = 0 THEN RStripZeros(SubSeq(bs, 1, Len(bs) - 1)) ELSE bs

\* out_path + ("." + ext if not ext.startswith(".") else ext), without the directory
FinalName(e) == BaseName \o (IF ~StartsWith(e, <<Dot>>) THEN <<Dot>> \o e ELSE e)

(***************************************************************************)
(* The inputs of the model.                                                *)
(***************************************************************************)
DataBytes == {0, 65}

RECURSIVE SeqsUpTo(_, _)
SeqsUpTo(S, n) ==
    IF n = 0 THEN {<<>>}
    ELSE LET prev == SeqsUpTo(S, n - 1)
         IN  prev \cup {Append(t, x) : t \in {u \in prev : Len(u) = n - 1}, x \in S}

Datas == SeqsUpTo(DataBytes, MaxDataLen)

\* the passwords: "", "p", "qé"
PwEmpty == <<>>
Pw1 == <<112>>
Pw2 == <<113, 233>>
Passwords == {PwEmpty, Pw1, Pw2}

\* the extensions: "txt", ".png", ".binpng", "", "pptx"
ExtTxt == <<116, 120, 116>>
ExtDotPng == <<46, 112, 110, 103>>
ExtEmpty == <<>>
ExtPptx == <<112, 112, 116, 120>>
PayloadExts == {ExtTxt, ExtDotPng, DotBinpng}

Hd(flag, encpwd, e, extb, data, delta, cut) ==
    [flag |-> flag, encpwd |-> encpwd, ext |-> e, extb |-> extb,
     data |-> data, delta |-> delta, cut |-> cut]

\* what an encoder produces: flag 0 without a password, flag 1 with one
ValidHeaders ==
    {Hd(0, PwEmpty, e, Utf8Encode(e), d, 0, -1) : e \in PayloadExts, d \in Datas}
    \cup {Hd(1, pw, ExtTxt, Utf8Encode(ExtTxt), d, 0, -1) :
            pw \in Passwords \ {PwEmpty}, d \in Datas}

\* a valid unprotected payload of 130 data bytes with extension "pptx" whose
\* depth-8 embedding also reads as a valid bitstream at depth 2
AmbiguousData == [i \in 1..130 |-> IF i = 24 THEN 1 ELSE IF i \in {25, 26} THEN 2 ELSE 0]
AmbiguousHd == Hd(0, PwEmpty, ExtPptx, Utf8Encode(ExtPptx), AmbiguousData, 0, -1)

\* headers with any flag, a data_len field that may lie, stored bytes of the
\* extension that may be ill-formed UTF-8
Deltas == {-1, 0, 1, 16777216}
ParseExts == {<<ExtTxt, Utf8Encode(ExtTxt)>>, <<ExtEmpty, <<>>>>, <<<<116>>, <<255, 116, 195>>>>}
ParseHeaders ==
    {Hd(f, IF f = 1 THEN pw ELSE PwEmpty, e[1], e[2], dd[1], dd[2], -1) :
        f \in {0, 1, 2, 255}, pw \in Passwords, e \in ParseExts,
        dd \in {x \in Datas \X Deltas : Len(x[1]) + x[2] >= 0}}

\* every proper prefix of one protected and one unprotected header
TruncatedHeaders ==
    {Hd(1, Pw1, ExtTxt, Utf8Encode(ExtTxt), <<65>>, 0, c) :
        c \in 0..(HASH_LEN + SALT_LEN + 9)}
    \cup {Hd(0, PwEmpty, ExtTxt, Utf8Encode(ExtTxt), <<65>>, 0, c) : c \in 0..9}

NoHd == Hd(0, PwEmpty, ExtEmpty, <<>>, <<>>, 0, -1)

Scn(call, hd, stream, pdelta, k, h, w, cover, step) ==
    [call |-> call, hd |-> hd, stream |-> stream, pdelta |-> pdelta,
     k |-> k, h |-> h, w |-> w, cover |-> cover, step |-> step]

\* the width of the 13-row image a header is embedded in: 8 columns hold a
\* protected header at depth 2, 3 columns an unprotected one
WidthFor(hd) == IF hd.flag = 1 THEN 8 ELSE 3

\* valid payloads embedded at each depth
EmbedScenarios ==
    {Scn("decode", hd, TRUE, 0, k, 13, WidthFor(hd), 0, 0) :
        hd \in ValidHeaders, k \in {2, 6, 8}}
    \cup {Scn("decode", AmbiguousHd, TRUE, 0, 8, 1, 48, 0, 0)}

\* small unprotected payloads in a 1 x 4 image, whose 96 bits at depth 8 hold a
\* header of exactly 8 bytes, with an honest and an overstated length prefix
TightScenarios ==
    {Scn("decode", Hd(0, PwEmpty, ExtEmpty, <<>>, d, 0, -1), TRUE, pd, 8, 1, 4, 0, 0) :
        d \in Datas, pd \in {0, 1}}

\* malformed headers behind an honest length prefix
MalformedScenarios ==
    {Scn("decode", Hd(f, IF f = 1 THEN Pw1 ELSE PwEmpty, ExtTxt, Utf8Encode(ExtTxt),
                      <<65>>, dl, c), TRUE, 0, 2, 13, IF f = 1 THEN 8 ELSE 3, 0, 0) :
        f \in {0, 1}, dl \in {-1, 0, 1}, c \in {-1, 0, 1, 5}}

\* images that carry no payload
RawDims == {<<1, 1>>, <<1, 2>>, <<2, 2>>, <<13, 2>>, <<12, 5>>, <<13, 3>>, <<25, 5>>}
RawScenarios ==
    {Scn("decode", NoHd, FALSE, 0, 0, d[1], d[2], cv, st) :
        d \in RawDims, cv \in {0, 255}, st \in {0, 7}}

\* black images of one row whose fourth sample alone is not 0: no payload was
\* written, yet at depth 8 the first four samples read as a small length prefix
DarkDims == {<<1, 2>>, <<1, 4>>}
DarkValues == {1, 6, 8, 200}
DarkScenarios ==
    {Scn("decode", NoHd, FALSE, 0, 0, d[1], d[2], cv, -4) :
        d \in DarkDims, cv \in DarkValues}

\* an extension stored with two leading dots, "..png"
ExtDotDotPng == <<46, 46, 112, 110, 103>>
DotScenarios ==
    {Scn("decode", Hd(0, PwEmpty, ExtDotDotPng, Utf8Encode(ExtDotDotPng), <<65>>, 0, -1),
         TRUE, 0, 2, 13, 3, 0, 0)}

\* extensions around the suffix ".binpng": "binpng", "a.binpng", ".binpngx"
ExtBinpngNoDot == <<98, 105, 110, 112, 110, 103>>
ExtABinpng == <<97>> \o DotBinpng
ExtBinpngX == DotBinpng \o <<120>>
SuffixScenarios ==
    {Scn("decode", Hd(0, PwEmpty, e, Utf8Encode(e), <<65>>, 0, -1), TRUE, 0, 2, 13, 3, 0, 0) :
        e \in {ExtBinpngNoDot, ExtABinpng, ExtBinpngX}}

\* the payloads of a second decode into the same directory
SecondHeaders ==
    {Hd(0, PwEmpty, ExtTxt, Utf8Encode(ExtTxt), <<>>, 0, -1),
     Hd(0, PwEmpty, ExtTxt, Utf8Encode(ExtTxt), <<65>>, 0, -1),
     Hd(0, PwEmpty, ExtDotPng, Utf8Encode(ExtDotPng), <<0>>, 0, -1),
     Hd(0, PwEmpty, DotBinpng, Utf8Encode(DotBinpng), <<65>>, 0, -1)}
SecondScenarios ==
    {Scn("decode", hd, TRUE, 0, 2, 13, 3, 0, 0) : hd \in SecondHeaders}
    \cup {Scn("decode", NoHd, FALSE, 0, 0, 1, 1, 0, 0)}

ParseScenarios ==
    {Scn("parse", hd, FALSE, 0, 0, 0, 0, 0, 0) : hd \in ParseHeaders \cup TruncatedHeaders}

Scenarios ==
    EmbedScenarios \cup TightScenarios \cup MalformedScenarios \cup RawScenarios
    \cup DarkScenarios \cup DotScenarios \cup SuffixScenarios
    \cup ParseScenarios

\* the pixel buffer Image.open(...).convert("RGB") yields for a scenario
ImageOf(s) ==
    IF s.call = "parse" THEN [h |-> 0, w |-> 0, px |-> <<>>]
    ELSE LET blob == BuildHeader(s.hd)
             bits == IF s.stream THEN Stream(Len(blob) + s.pdelta, blob) ELSE <<>>
         IN  Embed(bits, s.k, s.h, s.w, s.cover, s.step)

(***************************************************************************)
(* The state.                                                              *)
(***************************************************************************)
VARIABLES
    scn,        \* how the inputs were built (never read by the decoder)
    arr,        \* the pixel buffer of the input image
    password,   \* the password argument
    pc,         \* where the call stands
    ki,         \* position of the for loop in KS
    header,     \* locals of decode_from_image; <<>> is None, <<v>> a value
    raw,
    ext,
    last_err,
    outcome,    \* what the call returned or raised
    dir_exists, \* the output directory
    files,      \* the files of the output directory: records [name, content]
    attempts,   \* history: every iteration of the for loop of this call, in order
    pcalls,     \* history: every direct _parse_header call
    fcalls,     \* history: every direct call of a helper function
    ncalls,     \* the number of decode_from_image calls started
    files0,     \* the files of the output directory when this call started
    app,        \* DecodeLogic.decode: the callback, its events, the I/O steps run
    gui,        \* the desktop window: its decode button and its worker thread
    droid       \* the Android app: the file picker and the polling of its result

vars == <<scn, arr, password, pc, ki, header, raw, ext, last_err, outcome,
          dir_exists, files, attempts, pcalls, fcalls, ncalls, files0,
          app, gui, droid>>

\* the applications are not running
NoApp == [callback |-> FALSE, events |-> <<>>, steps |-> <<>>, size |-> <<>>, io |-> <<>>]
NoGui == [on |-> FALSE]
NoDroid == [on |-> FALSE]

NoOutcome == [kind |-> "none", name |-> <<>>, ext |-> <<>>, data |-> <<>>, err |-> ""]
Returned(name, e, data) == [kind |-> "return", name |-> name, ext |-> e, data |-> data, err |-> ""]
Raised(e) == [kind |-> "raise", name |-> <<>>, ext |-> <<>>, data |-> <<>>, err |-> e]

Init ==
    \E s \in Scenarios :
        /\ scn = s
        /\ arr = ImageOf(s)
        /\ password \in Passwords
        /\ pc = IF s.call = "parse" THEN "parse" ELSE "start"
        /\ ki = 0
        /\ header = IF s.call = "parse" THEN <<BuildHeader(s.hd)>> ELSE <<>>
        /\ raw = <<>>
        /\ ext = <<>>
        /\ last_err = <<>>
        /\ outcome = NoOutcome
        /\ dir_exists = FALSE
        /\ files = {}
        /\ attempts = <<>>
        /\ pcalls = <<>>
        /\ fcalls = <<>>
        /\ ncalls = IF s.call = "decode" THEN 1 ELSE 0
        /\ files0 = {}
        /\ app = NoApp
        /\ gui = NoGui
        /\ droid = NoDroid

(***************************************************************************)
(* decode_from_image.                                                      *)
(***************************************************************************)
\* lines 134-141: the image is loaded, the locals are None, the loop starts
LoadImage ==
    /\ pc = "start"
    /\ pc' = "loop"
    /\ ki' = 1
    /\ UNCHANGED <<app, gui, droid, ncalls, files0, fcalls, scn, arr, password, header, raw, ext, last_err, outcome,
                   dir_exists, files, attempts, pcalls>>

\* a loop that remembers only the first error (not what line 148 does)
NextLastErr_KeepFirst(prev, e) == IF prev = <<>> THEN <<e>> ELSE prev

\* line 148: last_err = e
NextLastErr(prev, e) == <<e>>

\* lines 144-145 of one iteration: the extraction, then the parse of its header
\* unless the extraction raised; ok iff neither raised
Attempt(image, k, pw) ==
    LET ex == ExtractPayloadWithK(image, k)
        pr == IF ex.ok THEN ParseHeader(ex.header, pw) ELSE ParseFail("", 0)
    IN  [k |-> k, ex |-> ex, parsed |-> ex.ok, pr |-> pr,
         ok |-> ex.ok /\ pr.ok,
         err |-> IF ex.ok THEN pr.err ELSE ex.err]

\* lines 142-149: one iteration of the for loop
TryDepth ==
    /\ pc = "loop"
    /\ LET at == Attempt(arr, KS[ki], password)
       IN  /\ attempts' = Append(attempts, at)
           /\ header' = IF at.ex.ok THEN <<at.ex.header>> ELSE header
           /\ IF at.ok
              THEN /\ raw' = <<at.pr.data>>
                   /\ ext' = <<at.pr.ext>>
                   /\ pc' = "check"
                   /\ UNCHANGED <<ki, last_err>>
              ELSE /\ last_err' = NextLastErr(last_err, at.err)
                   /\ ki' = ki + 1
                   /\ pc' = IF ki = Len(KS) THEN "check" ELSE "loop"
                   /\ UNCHANGED <<raw, ext>>
    /\ UNCHANGED <<app, gui, droid, ncalls, files0, fcalls, scn, arr, password, outcome, dir_exists, files, pcalls>>

\* a raise that never uses last_err (not what line 152 does)
RaisedError_Fallback(err) == ErrDecodeFailed

\* line 152: last_err or RuntimeError("Decoding failed")
RaisedError(err) == IF err # <<>> THEN err[1] ELSE ErrDecodeFailed

\* a failure raised only after the output directory was made (not the order of
\* lines 151-155)
RaiseFailure_AfterMakedirs ==
    /\ pc = "check"
    /\ raw = <<>>
    /\ dir_exists' = TRUE
    /\ outcome' = Raised(RaisedError(last_err))
    /\ pc' = "raised"
    /\ UNCHANGED <<app, gui, droid, ncalls, files0, fcalls, scn, arr, password, ki, header, raw, ext, last_err,
                   files, attempts, pcalls>>

\* lines 151-152: no depth succeeded
RaiseFailure ==
    /\ pc = "check"
    /\ raw = <<>>
    /\ outcome' = Raised(RaisedError(last_err))
    /\ pc' = "raised"
    /\ UNCHANGED <<app, gui, droid, ncalls, files0, fcalls, scn, arr, password, ki, header, raw, ext, last_err,
                   dir_exists, files, attempts, pcalls>>

\* a write that leaves a file that is already there alone (not what open(path,
\* "wb") does)
WriteFile_KeepOld(fs, name, content) ==
    IF \E f \in fs : f.name = name THEN fs
    ELSE fs \cup {[name |-> name, content |-> content]}

\* with open(path, "wb") as f: f.write(content)
WriteFile(fs, name, content) ==
    {f \in fs : f.name # name} \cup {[name |-> name, content |-> content]}

\* lines 155-157 and 170-176: the payload is written under its own extension
SaveDirect ==
    /\ pc = "check"
    /\ raw # <<>>
    /\ ~EndsWith(ext[1], DotBinpng)
    /\ dir_exists' = TRUE
    /\ files' = WriteFile(files, FinalName(ext[1]), raw[1])
    /\ outcome' = Returned(FinalName(ext[1]), LStripDots(ext[1]), raw[1])
    /\ pc' = "returned"
    /\ UNCHANGED <<app, gui, droid, ncalls, files0, fcalls, scn, arr, password, ki, header, raw, ext, last_err, attempts, pcalls>>

\* what Image.open(tmp_png).convert("RGB") may yield for the payload bytes:
\* <<>> when it raises, else <<flat>> with the flattened samples of the picture
PngOutcomes == {<<>>, <<<<1, 2, 3, 0, 0, 0>>>>, <<<<0, 0, 0>>>>, <<<<5, 0, 7>>>>}

\* lines 155-169: the payload is a picture whose samples are the file
SaveBinpng ==
    /\ pc = "check"
    /\ raw # <<>>
    /\ EndsWith(ext[1], DotBinpng)
    /\ dir_exists' = TRUE
    /\ \E img \in PngOutcomes :
         LET tmp_png == BaseName \o DotBinpng
             written == WriteFile(files, tmp_png, raw[1])
         IN  IF img = <<>>
             THEN /\ files' = written
                  /\ outcome' = Raised("cannot identify image file")
                  /\ pc' = "raised"
             ELSE LET mp4_bytes == RStripZeros(img[1])
                      final_name == BaseName \o DotMp4
                  IN  /\ files' = WriteFile({f \in written : f.name # tmp_png},
                                            final_name, mp4_bytes)
                      /\ outcome' = Returned(final_name, Mp4, mp4_bytes)
                      /\ pc' = "returned"
    /\ UNCHANGED <<app, gui, droid, ncalls, files0, fcalls, scn, arr, password, ki, header, raw, ext, last_err, attempts, pcalls>>

\* the most decode_from_image calls one behaviour makes
MaxDecodes == 2

\* decode_from_image is called again, on another image, with the same password
\* and output_dir, after the call before it returned or raised
DecodeAgain ==
    /\ scn.call = "decode"
    /\ pc \in {"returned", "raised"}
    /\ ncalls < MaxDecodes
    /\ \E s \in SecondScenarios :
         /\ scn' = s
         /\ arr' = ImageOf(s)
    /\ pc' = "start"
    /\ ki' = 0
    /\ header' = <<>>
    /\ raw' = <<>>
    /\ ext' = <<>>
    /\ last_err' = <<>>
    /\ outcome' = NoOutcome
    /\ attempts' = <<>>
    /\ ncalls' = ncalls + 1
    /\ files0' = files
    /\ UNCHANGED <<app, gui, droid, password, dir_exists, files, pcalls, fcalls>>

(***************************************************************************)
(* A direct call of _parse_header(header, password).                       *)
(***************************************************************************)
ParseCall ==
    /\ pc = "parse"
    /\ LET pr == ParseHeader(header[1], password)
       IN  /\ pcalls' = Append(pcalls, [header |-> header[1], password |-> password,
                                        res |-> pr])
           /\ outcome' = IF pr.ok THEN Returned(<<>>, pr.ext, pr.data) ELSE Raised(pr.err)
           /\ pc' = IF pr.ok THEN "returned" ELSE "raised"
    /\ UNCHANGED <<app, gui, droid, ncalls, files0, fcalls, scn, arr, password, ki, header, raw, ext, last_err,
                   dir_exists, files, attempts>>

Next ==
    \/ LoadImage \/ TryDepth \/ RaiseFailure \/ SaveDirect \/ SaveBinpng
    \/ DecodeAgain \/ ParseCall

Spec == Init /\ [][Next]_vars

(***************************************************************************)
(* Direct calls of the helper functions.  A call is recorded as            *)
(*   fn        the function called                                         *)
(*   pw, salt  the password and salt of a _generate_key_stream call        *)
(*   n         its length, or the size a size string is made of            *)
(*   a, b      byte arguments: data and keystream; for a keystream call b  *)
(*             is the buffer out as the while loop left it                 *)
(*   img       the picture a binpng call read: rows of pixels <<R, G, B>>  *)
(*   out       what the call returned                                      *)
(***************************************************************************)
FnRec(fn, pw, salt, n, a, b, img, out) ==
    [fn |-> fn, pw |-> pw, salt |-> salt, n |-> n, a |-> a, b |-> b,
     img |-> img, out |-> out]

\* the most calls one behaviour makes
MaxCalls == 3

\* a second salt
Salt2 == [i \in 1..SALT_LEN |-> (255 - 3 * i) % 256]

\* passwords with their salts, and lengths around the 32 bytes of one block
KsKeys == {<<Pw1, Salt>>, <<Pw2, Salt>>, <<Pw2, Salt2>>}
KsLens == {0, HASH_LEN - 1, HASH_LEN, HASH_LEN + 1, 2 * HASH_LEN + 1}

\* the decoder is not running
FnInit ==
    /\ scn = Scn("fn", NoHd, FALSE, 0, 0, 0, 0, 0, 0)
    /\ arr = [h |-> 0, w |-> 0, px |-> <<>>]
    /\ password = <<>>
    /\ pc = "fn"
    /\ ki = 0
    /\ header = <<>>
    /\ raw = <<>>
    /\ ext = <<>>
    /\ last_err = <<>>
    /\ outcome = NoOutcome
    /\ dir_exists = FALSE
    /\ files = {}
    /\ attempts = <<>>
    /\ pcalls = <<>>
    /\ fcalls = <<>>
    /\ ncalls = 0
    /\ files0 = {}
    /\ app = NoApp
    /\ gui = NoGui
    /\ droid = NoDroid

\* every call so far was a call of fn
OnlyCalls(fn) == \A i \in 1..Len(fcalls) : fcalls[i].fn = fn

\* _generate_key_stream(pw, salt, n), any number of times
GenerateCall ==
    /\ pc = "fn"
    /\ Len(fcalls) < MaxCalls
    /\ OnlyCalls("generate")
    /\ \E key \in KsKeys, n \in KsLens :
         fcalls' = Append(fcalls, FnRec("generate", key[1], key[2], n, <<>>,
                                        KeyStreamLoop(KeyMaterial(key[1], key[2]), n, <<>>, 0),
                                        <<>>, GenerateKeyStream(key[1], key[2], n)))
    /\ UNCHANGED <<app, gui, droid, ncalls, files0, scn, arr, password, pc, ki, header, raw, ext, last_err, outcome,
                   dir_exists, files, attempts, pcalls>>

\* data and keystreams of equal length
XorBytesIn == {0, 65, 255}
XorInputs ==
    {p \in SeqsUpTo(XorBytesIn, MaxDataLen) \X SeqsUpTo(XorBytesIn, MaxDataLen) :
        Len(p[1]) = Len(p[2])}

\* line 109 on its own: bytes(a ^ b for a, b in zip(data, ks)), first on fresh
\* data, then again on what the call before returned, with the same keystream
XorCall ==
    /\ pc = "fn"
    /\ Len(fcalls) < MaxCalls
    /\ OnlyCalls("xor")
    /\ \E p \in (IF fcalls = <<>> THEN XorInputs
                 ELSE {<<fcalls[Len(fcalls)].out, fcalls[Len(fcalls)].b>>}) :
         fcalls' = Append(fcalls, FnRec("xor", <<>>, <<>>, 0, p[1], p[2], <<>>,
                                        XorBytes(p[1], p[2])))
    /\ UNCHANGED <<app, gui, droid, ncalls, files0, scn, arr, password, pc, ki, header, raw, ext, last_err, outcome,
                   dir_exists, files, attempts, pcalls>>

\* flat = arr.reshape(-1, 3).reshape(-1): the rows one after the other, the
\* pixels of a row one after the other, the samples of a pixel R, G, B
RECURSIVE Concat(_)
Concat(ss) == IF ss = <<>> THEN <<>> ELSE Head(ss) \o Concat(Tail(ss))
BinpngFlat(img) == Concat(Concat(img))

\* lines 115-118: flat.tobytes().rstrip(b"\x00") of the picture read
BinpngBytesToMp4Bytes(img) == RStripZeros(BinpngFlat(img))

\* pictures of one or two pixels
PngSamples == {0, 7}
PngPixels == {<<r, g, b>> : r \in PngSamples, g \in PngSamples, b \in PngSamples}
Pictures ==
    {<<<<p>>>> : p \in PngPixels}
    \cup {<<<<p, q>>>> : p \in PngPixels, q \in PngPixels}
    \cup {<<<<p>>, <<q>>>> : p \in PngPixels, q \in PngPixels}

\* binpng_bytes_to_mp4_bytes on a file that holds the picture img
BinpngCall ==
    /\ pc = "fn"
    /\ fcalls = <<>>
    /\ \E img \in Pictures :
         fcalls' = Append(fcalls, FnRec("binpng", <<>>, <<>>, 0, <<>>, <<>>, img,
                                        BinpngBytesToMp4Bytes(img)))
    /\ UNCHANGED <<app, gui, droid, ncalls, files0, scn, arr, password, pc, ki, header, raw, ext, last_err, outcome,
                   dir_exists, files, attempts, pcalls>>

\* " bytes", " KB", " MB"
StrBytes == <<32, 98, 121, 116, 101, 115>>
StrKB == <<32, 75, 66>>
StrMB == <<32, 77, 66>>

KIB == 1024

\* f"{size / d:.2f}" for d a power of two: size / d is exact in a double, and
\* the format rounds it to the nearest hundredth, a tie to the even one
Fixed2(size, d) ==
    LET q == (100 * size) \div d
        r == (100 * size) % d
        h == IF 2 * r > d \/ (2 * r = d /\ q % 2 = 1) THEN q + 1 ELSE q
    IN  DecimalStr(h \div 100) \o <<Dot, 48 + ((h \div 10) % 10), 48 + (h % 10)>>

\* the size string of DecodeLogic.decode and DecodeWorker.run
SizeStr(size) ==
    IF size > KIB * KIB THEN Fixed2(size, KIB * KIB) \o StrMB
    ELSE IF size > KIB THEN Fixed2(size, KIB) \o StrKB
    ELSE DecimalStr(size) \o StrBytes

\* file sizes at and around 1 KiB and 1 MiB
SizeInputs ==
    {0, 1, KIB - 1, KIB, KIB + 1, KIB + 128, 2 * KIB, KIB * KIB - 1, KIB * KIB,
     KIB * KIB + 1, 2 * KIB * KIB}

\* the size string made of the size of the final file
SizeCall ==
    /\ pc = "fn"
    /\ fcalls = <<>>
    /\ \E n \in SizeInputs :
         fcalls' = Append(fcalls, FnRec("size", <<>>, <<>>, n, <<>>, <<>>, <<>>, SizeStr(n)))
    /\ UNCHANGED <<app, gui, droid, ncalls, files0, scn, arr, password, pc, ki, header, raw, ext, last_err, outcome,
                   dir_exists, files, attempts, pcalls>>

FnNext == GenerateCall \/ XorCall \/ BinpngCall \/ SizeCall

FnSpec == FnInit /\ [][FnNext]_vars


(***************************************************************************)
(* DecodeLogic.decode(image_path, password, output_dir, callback) of       *)
(* main.py.  app holds                                                     *)
(*   callback  whether a callback was passed                               *)
(*   events    the messages the callback received, in order                *)
(*   steps     the I/O steps the call ran, in order; the last one is the   *)
(*             one that failed when the call raised out of an I/O step     *)
(*   size      <<size_str>> once the call returned                         *)
(*   io        what the outside world did: <<loaded>> after Image.open,    *)
(*             <<loaded, n_ok, png>> after the save                        *)
(***************************************************************************)
EvLoading == "Loading image..."
EvExtracting == "Extracting data..."
EvSaving == "Saving file..."

\* what the failing step raises
ErrOpenImage == "No such file or directory"
ErrIdentify == "cannot identify image file"
ErrMakedirs == "Permission denied: output_dir"
ErrWrite == "No space left on device"
ErrUnlink == "Permission denied: unlink"

StepLoad == "load"
StepMakedirs == "makedirs"
StepWriteTmp == "write_tmp"
StepReinterpret == "reinterpret"
StepUnlink == "unlink"
StepWriteFinal == "write_final"

StepError(step) ==
    CASE step = StepLoad -> ErrOpenImage
      [] step = StepMakedirs -> ErrMakedirs
      [] step = StepWriteTmp -> ErrWrite
      [] step = StepReinterpret -> ErrIdentify
      [] step = StepUnlink -> ErrUnlink
      [] OTHER -> ErrWrite

\* a progress message sent whether or not there is a callback (not what the
\* guards of lines 120, 126, 145 do)
EmitIf_Always(cb, evs, e) == Append(evs, e)

\* lines 120-121, 126-127, 145-146: if callback: callback(message)
EmitIf(cb, evs, e) == IF cb THEN Append(evs, e) ELSE evs

\* lines 152-166: the I/O steps of the save, in the order they run
SaveSteps(e) ==
    IF EndsWith(e, DotBinpng)
    THEN <<StepMakedirs, StepWriteTmp, StepReinterpret, StepUnlink, StepWriteFinal>>
    ELSE <<StepMakedirs, StepWriteFinal>>

\* a save that goes on to the next step after a step failed (not what an
\* exception does)
StepsRun_All(order, n_ok) == order

\* the steps that run when the first n_ok of them succeed: those, and the one
\* that fails
StepsRun(order, n_ok) == SubSeq(order, 1, Min(n_ok + 1, Len(order)))

\* lines 148-176: the save when the first n_ok steps succeed and Image.open
\* reads the temporary file as the samples png; what it leaves and returns
SaveOutcome(fs, dir, data, e, n_ok, png) ==
    LET order == SaveSteps(e)
        binpng == EndsWith(e, DotBinpng)
        tmp_png == BaseName \o DotBinpng
        final_name == IF binpng THEN BaseName \o DotMp4 ELSE FinalName(e)
        final_ext == IF binpng THEN Mp4 ELSE LStripDots(e)
        content == IF binpng THEN RStripZeros(png) ELSE data
        fs1 == IF binpng /\ n_ok >= 2 THEN WriteFile(fs, tmp_png, data) ELSE fs
        fs2 == IF binpng /\ n_ok >= 4 THEN {f \in fs1 : f.name # tmp_png} ELSE fs1
        fs3 == IF n_ok = Len(order) THEN WriteFile(fs2, final_name, content) ELSE fs2
    IN  [dir |-> dir \/ n_ok >= 1,
         files |-> fs3,
         steps |-> StepsRun(order, n_ok),
         outcome |-> IF n_ok = Len(order)
                     THEN Returned(final_name, final_ext, content)
                     ELSE Raised(StepError(order[n_ok + 1])),
         size |-> IF n_ok = Len(order) THEN <<SizeStr(Len(content))>> ELSE <<>>]

\* the first depth of KS, from position i on, whose attempt succeeds: <<attempt>>,
\* or <<>> when none does
RECURSIVE FirstSuccess(_, _, _)
FirstSuccess(image, pw, i) ==
    IF i > Len(KS) THEN <<>>
    ELSE LET at == Attempt(image, KS[i], pw)
         IN  IF at.ok THEN <<at>> ELSE FirstSuccess(image, pw, i + 1)

\* the images DecodeLogic.decode is given: payloads at depths 2, 6 and 8, with
\* and without a password, a video payload, a cover image, a corrupt header
LogicHeaders ==
    {Hd(0, PwEmpty, ExtTxt, Utf8Encode(ExtTxt), <<65>>, 0, -1),
     Hd(1, Pw1, ExtTxt, Utf8Encode(ExtTxt), <<65>>, 0, -1),
     Hd(0, PwEmpty, DotBinpng, Utf8Encode(DotBinpng), <<65>>, 0, -1)}
LogicScenarios ==
    {Scn("logic", hd, TRUE, 0, k, 13, WidthFor(hd), 0, 0) :
        hd \in LogicHeaders, k \in {2, 8}}
    \cup {Scn("logic", Hd(1, Pw1, ExtTxt, Utf8Encode(ExtTxt), <<65>>, 0, -1),
              TRUE, 0, 6, 13, 8, 0, 0),
          Scn("logic", Hd(0, PwEmpty, ExtTxt, Utf8Encode(ExtTxt), <<65>>, 1, -1),
              TRUE, 0, 2, 13, 3, 0, 0),
          Scn("logic", NoHd, FALSE, 0, 0, 1, 1, 0, 0),
          Scn("logic", NoHd, FALSE, 0, 0, 13, 2, 255, 7)}

LogicInit ==
    \E s \in LogicScenarios, cb \in BOOLEAN :
        /\ scn = s
        /\ arr = ImageOf(s)
        /\ password \in Passwords
        /\ pc = "start"
        /\ ki = 0
        /\ header = <<>>
        /\ raw = <<>>
        /\ ext = <<>>
        /\ last_err = <<>>
        /\ outcome = NoOutcome
        /\ dir_exists = FALSE
        /\ files = {}
        /\ attempts = <<>>
        /\ pcalls = <<>>
        /\ fcalls = <<>>
        /\ ncalls = 1
        /\ files0 = {}
        /\ app = [NoApp EXCEPT !.callback = cb]
        /\ gui = NoGui
        /\ droid = NoDroid

\* lines 120-132: "loading", Image.open, "extracting", the locals are None
LogicLoad ==
    /\ pc = "start"
    /\ \E loaded \in BOOLEAN :
         LET ev1 == EmitIf(app.callback, app.events, EvLoading)
         IN  IF loaded
             THEN /\ app' = [app EXCEPT !.events = EmitIf(app.callback, ev1, EvExtracting),
                                        !.steps = <<StepLoad>>, !.io = <<TRUE>>]
                  /\ pc' = "loop"
                  /\ ki' = 1
                  /\ UNCHANGED outcome
             ELSE /\ app' = [app EXCEPT !.events = ev1, !.steps = <<StepLoad>>,
                                        !.io = <<FALSE>>]
                  /\ outcome' = Raised(StepError(StepLoad))
                  /\ pc' = "raised"
                  /\ UNCHANGED ki
    /\ UNCHANGED <<gui, droid, ncalls, files0, fcalls, scn, arr, password, header, raw,
                   ext, last_err, dir_exists, files, attempts, pcalls>>

\* lines 133-140: one iteration of the for loop
LogicTry ==
    /\ pc = "loop"
    /\ LET at == Attempt(arr, KS[ki], password)
       IN  /\ attempts' = Append(attempts, at)
           /\ header' = IF at.ex.ok THEN <<at.ex.header>> ELSE header
           /\ IF at.ok
              THEN /\ raw' = <<at.pr.data>>
                   /\ ext' = <<at.pr.ext>>
                   /\ pc' = "check"
                   /\ UNCHANGED <<ki, last_err>>
              ELSE /\ last_err' = NextLastErr(last_err, at.err)
                   /\ ki' = ki + 1
                   /\ pc' = IF ki = Len(KS) THEN "check" ELSE "loop"
                   /\ UNCHANGED <<raw, ext>>
    /\ UNCHANGED <<app, gui, droid, ncalls, files0, fcalls, scn, arr, password, outcome,
                   dir_exists, files, pcalls>>

\* lines 142-143: no depth succeeded
LogicRaise ==
    /\ pc = "check"
    /\ raw = <<>>
    /\ outcome' = Raised(RaisedError(last_err))
    /\ pc' = "raised"
    /\ UNCHANGED <<app, gui, droid, ncalls, files0, fcalls, scn, arr, password, ki, header,
                   raw, ext, last_err, dir_exists, files, attempts, pcalls>>

\* lines 145-176: "saving", then the save, any step of which may fail
LogicSave ==
    /\ pc = "check"
    /\ raw # <<>>
    /\ \E n_ok \in 0..Len(SaveSteps(ext[1])), png \in PngOutcomes :
         /\ IF EndsWith(ext[1], DotBinpng) /\ n_ok >= 3 THEN png # <<>> ELSE png = <<>>
         /\ LET so == SaveOutcome(files, dir_exists, raw[1], ext[1], n_ok,
                                  IF png = <<>> THEN <<>> ELSE png[1])
            IN  /\ dir_exists' = so.dir
                /\ files' = so.files
                /\ outcome' = so.outcome
                /\ pc' = IF so.outcome.kind = "return" THEN "returned" ELSE "raised"
                /\ app' = [app EXCEPT !.events = EmitIf(app.callback, app.events, EvSaving),
                                      !.steps = app.steps \o so.steps,
                                      !.size = so.size,
                                      !.io = <<TRUE, n_ok, png>>]
    /\ UNCHANGED <<gui, droid, ncalls, files0, fcalls, scn, arr, password, ki, header, raw,
                   ext, last_err, attempts, pcalls>>

LogicNext == LogicLoad \/ LogicTry \/ LogicRaise \/ LogicSave

LogicSpec == LogicInit /\ [][LogicNext]_vars


(***************************************************************************)
(* SafeDecodeLogic.decode of duck_decode_android.py.  Its helpers compute   *)
(* what those of duck_decode_cli.py compute and differ in their messages:  *)
(* each wraps what it raises in a message of its own.  Messages are        *)
(* sequences of code points.                                               *)
(***************************************************************************)
SafeEvLoading ==
    <<27491, 22312, 21152, 36733, 22270, 29255, 46, 46, 46>>
SafeEvExtracting ==
    <<27491, 22312, 20174, 22270, 29255, 20013, 25552, 21462, 38544, 34255, 25968, 25454, 46, 46, 46>>
SafeEvSaving ==
    <<27491, 22312, 20445, 23384, 35299, 30721, 21518, 30340, 25991, 20214, 46, 46, 46>>
SafeErrTooLittle ==
    <<22270, 29255, 25968, 25454, 22826, 23569, 65292, 26080, 27861, 35299, 30721>>
SafeErrLength ==
    <<25991, 20214, 25968, 25454, 38271, 24230, 24322, 24120>>
SafePreExtract ==
    <<25552, 21462, 25968, 25454, 22833, 36133, 58, 32>>
SafeErrCorrupted ==
    <<25991, 20214, 22836, 25439, 22351>>
SafeErrDataLength ==
    <<25968, 25454, 38271, 24230, 19981, 21305, 37197>>
SafeErrNeedsPassword ==
    <<27492, 22270, 29255, 38656, 35201, 23494, 30721, 25165, 33021, 35299, 30721>>
SafeErrWrongPassword ==
    <<23494, 30721, 38169, 35823, 65292, 35831, 37325, 26032, 36755, 20837>>
SafePreParse ==
    <<35299, 26512, 25991, 20214, 22836, 22833, 36133, 58, 32>>
SafePreBinpng ==
    <<36716, 25442, 35270, 39057, 26684, 24335, 22833, 36133, 58, 32>>
SafeErrNoFile ==
    <<22270, 29255, 25991, 20214, 19981, 23384, 22312, 58, 32>>
SafeErrNothing ==
    <<26080, 27861, 20174, 22270, 29255, 20013, 25552, 21462, 38544, 34255, 25968, 25454>>
SafeWordPassword ==
    <<23494, 30721>>
SafeWordPasswordAscii ==
    <<112, 97, 115, 115, 119, 111, 114, 100>>
SafeErrPassword ==
    <<38656, 35201, 27491, 30830, 30340, 23494, 30721, 25165, 33021, 35299, 30721, 27492, 22270, 29255>>
SafePreFailed ==
    <<35299, 30721, 22833, 36133, 58, 32>>
SafePreSave ==
    <<20445, 23384, 25991, 20214, 22833, 36133, 58, 32>>
SafePreDecode ==
    <<35299, 30721, 36807, 31243, 20986, 38169, 58, 32>>
SafeStrBytes ==
    <<32, 23383, 33410>>
SafeOsError ==
    <<91, 69, 114, 114, 110, 111, 32, 49, 51, 93, 32, 80, 101, 114, 109, 105, 115, 115, 105, 111, 110, 32, 100, 101, 110, 105, 101, 100>>
SafeErrIdentify ==
    <<99, 97, 110, 110, 111, 116, 32, 105, 100, 101, 110, 116, 105, 102, 121, 32, 105, 109, 97, 103, 101, 32, 102, 105, 108, 101>>

\* sub in s
Contains(s, sub) ==
    \E i \in 0..(Len(s) - Len(sub)) : SubSeq(s, i + 1, i + Len(sub)) = sub

\* str.lower(), on the letters A to Z (the messages hold no other cased letter)
LowerAscii(s) == [i \in 1..Len(s) |-> IF s[i] \in 65..90 THEN s[i] + 32 ELSE s[i]]

\* lines 408-419: what extract_payload_with_k raises
SafeExtractMsg(err) ==
    SafePreExtract \o (IF err = ErrInsufficientData THEN SafeErrTooLittle ELSE SafeErrLength)

\* lines 439-477: what parse_header raises
SafeParseMsg(err) ==
    SafePreParse \o
        (CASE err = ErrHeaderCorrupted -> SafeErrCorrupted
           [] err = ErrDataLength -> SafeErrDataLength
           [] err = ErrPasswordRequired -> SafeErrNeedsPassword
           [] err = ErrWrongPassword -> SafeErrWrongPassword
           [] OTHER -> SafeErrCorrupted)

\* the message of the exception an iteration of the loop caught
SafeAttemptMsg(at) == IF at.parsed THEN SafeParseMsg(at.err) ELSE SafeExtractMsg(at.err)

\* line 521: "密码" in error_msg or "password" in error_msg.lower()
MentionsPassword(msg) ==
    Contains(msg, SafeWordPassword) \/ Contains(LowerAscii(msg), SafeWordPasswordAscii)

\* lines 519-523 and 561-562: the exception raised when no depth succeeded
SafeFailure(last) ==
    LET error_msg == IF last # <<>> THEN last[1] ELSE SafeErrNothing
    IN  SafePreDecode \o (IF MentionsPassword(error_msg) THEN SafeErrPassword
                          ELSE SafePreFailed \o error_msg)

\* lines 528-549 and 561-562: the exception raised when a step of the save fails
SafeSaveMsg(step) ==
    SafePreDecode \o
        (IF step = StepMakedirs THEN SafeOsError
         ELSE SafePreSave \o (IF step = StepReinterpret THEN SafePreBinpng \o SafeErrIdentify
                              ELSE SafeOsError))

\* f"{size / d:.1f}" and f"{size / d:.0f}" for d a power of two: the nearest
\* tenth, the nearest integer, a tie to the even one
Fixed1(size, d) ==
    LET q == (10 * size) \div d
        r == (10 * size) % d
        h == IF 2 * r > d \/ (2 * r = d /\ q % 2 = 1) THEN q + 1 ELSE q
    IN  DecimalStr(h \div 10) \o <<Dot, 48 + (h % 10)>>
Fixed0(size, d) ==
    LET q == size \div d
        r == size % d
    IN  DecimalStr(IF 2 * r > d \/ (2 * r = d /\ q % 2 = 1) THEN q + 1 ELSE q)

\* lines 551-557
SafeSizeStr(size) ==
    IF size > KIB * KIB THEN Fixed1(size, KIB * KIB) \o StrMB
    ELSE IF size > KIB THEN Fixed0(size, KIB) \o StrKB
    ELSE DecimalStr(size) \o SafeStrBytes

\* protected and unprotected payloads at each depth, a video payload, a cover
\* image
SafeHeaders ==
    {Hd(0, PwEmpty, ExtTxt, Utf8Encode(ExtTxt), <<65>>, 0, -1),
     Hd(1, Pw1, ExtTxt, Utf8Encode(ExtTxt), <<65>>, 0, -1),
     Hd(0, PwEmpty, DotBinpng, Utf8Encode(DotBinpng), <<65>>, 0, -1)}
SafeScenarios ==
    {Scn("safe", hd, TRUE, 0, k, 13, WidthFor(hd), 0, 0) : hd \in SafeHeaders, k \in {2, 6, 8}}
    \cup {Scn("safe", NoHd, FALSE, 0, 0, 1, 1, 0, 0),
          Scn("safe", NoHd, FALSE, 0, 0, 13, 2, 255, 7)}

SafeInit ==
    \E s \in SafeScenarios, cb \in BOOLEAN :
        /\ scn = s
        /\ arr = ImageOf(s)
        /\ password \in Passwords
        /\ pc = "start"
        /\ ki = 0
        /\ header = <<>>
        /\ raw = <<>>
        /\ ext = <<>>
        /\ last_err = <<>>
        /\ outcome = NoOutcome
        /\ dir_exists = FALSE
        /\ files = {}
        /\ attempts = <<>>
        /\ pcalls = <<>>
        /\ fcalls = <<>>
        /\ ncalls = 1
        /\ files0 = {}
        /\ app = [NoApp EXCEPT !.callback = cb]
        /\ gui = NoGui
        /\ droid = NoDroid

\* lines 493-508: "loading", the file must exist and be a picture, "extracting"
SafeLoad ==
    /\ pc = "start"
    /\ \E load \in {"ok", "missing", "unreadable"} :
         LET ev1 == EmitIf(app.callback, app.events, SafeEvLoading)
         IN  IF load = "ok"
             THEN /\ app' = [app EXCEPT !.events = EmitIf(app.callback, ev1, SafeEvExtracting),
                                        !.steps = <<StepLoad>>, !.io = <<TRUE>>]
                  /\ pc' = "loop"
                  /\ ki' = 1
                  /\ UNCHANGED outcome
             ELSE /\ app' = [app EXCEPT !.events = ev1, !.steps = <<StepLoad>>,
                                        !.io = <<FALSE>>]
                  /\ outcome' = Raised(SafePreDecode \o (IF load = "missing" THEN SafeErrNoFile
                                                         ELSE SafeErrIdentify))
                  /\ pc' = "raised"
                  /\ UNCHANGED ki
    /\ UNCHANGED <<gui, droid, ncalls, files0, fcalls, scn, arr, password, header, raw,
                   ext, last_err, dir_exists, files, attempts, pcalls>>

\* lines 510-517: one iteration of the for loop
SafeTry ==
    /\ pc = "loop"
    /\ LET at == Attempt(arr, KS[ki], password)
       IN  /\ attempts' = Append(attempts, at)
           /\ header' = IF at.ex.ok THEN <<at.ex.header>> ELSE header
           /\ IF at.ok
              THEN /\ raw' = <<at.pr.data>>
                   /\ ext' = <<at.pr.ext>>
                   /\ pc' = "check"
                   /\ UNCHANGED <<ki, last_err>>
              ELSE /\ last_err' = NextLastErr(last_err, SafeAttemptMsg(at))
                   /\ ki' = ki + 1
                   /\ pc' = IF ki = Len(KS) THEN "check" ELSE "loop"
                   /\ UNCHANGED <<raw, ext>>
    /\ UNCHANGED <<app, gui, droid, ncalls, files0, fcalls, scn, arr, password, outcome,
                   dir_exists, files, pcalls>>

\* lines 519-523: no depth succeeded
SafeRaise ==
    /\ pc = "check"
    /\ raw = <<>>
    /\ outcome' = Raised(SafeFailure(last_err))
    /\ pc' = "raised"
    /\ UNCHANGED <<app, gui, droid, ncalls, files0, fcalls, scn, arr, password, ki, header,
                   raw, ext, last_err, dir_exists, files, attempts, pcalls>>

\* lines 525-559: "saving", then the save, any step of which may fail
SafeSave ==
    /\ pc = "check"
    /\ raw # <<>>
    /\ \E n_ok \in 0..Len(SaveSteps(ext[1])), png \in PngOutcomes :
         /\ IF EndsWith(ext[1], DotBinpng) /\ n_ok >= 3 THEN png # <<>> ELSE png = <<>>
         /\ LET so == SaveOutcome(files, dir_exists, raw[1], ext[1], n_ok,
                                  IF png = <<>> THEN <<>> ELSE png[1])
                returns == so.outcome.kind = "return"
            IN  /\ dir_exists' = so.dir
                /\ files' = so.files
                /\ outcome' = IF returns THEN so.outcome
                              ELSE Raised(SafeSaveMsg(so.steps[Len(so.steps)]))
                /\ pc' = IF returns THEN "returned" ELSE "raised"
                /\ app' = [app EXCEPT !.events = EmitIf(app.callback, app.events, SafeEvSaving),
                                      !.steps = app.steps \o so.steps,
                                      !.size = IF returns
                                               THEN <<SafeSizeStr(Len(so.outcome.data))>>
                                               ELSE <<>>,
                                      !.io = <<TRUE, n_ok, png>>]
    /\ UNCHANGED <<gui, droid, ncalls, files0, fcalls, scn, arr, password, ki, header, raw,
                   ext, last_err, attempts, pcalls>>

SafeNext == SafeLoad \/ SafeTry \/ SafeRaise \/ SafeSave

SafeSpec == SafeInit /\ [][SafeNext]_vars


(***************************************************************************)
(* The desktop window of duck_decode_gui.py and its DecodeWorker threads.  *)
(* gui holds                                                               *)
(*   btn, open_btn  whether decode_btn and open_btn are enabled            *)
(*   bar       the progress bar: "hidden", "busy" or "done"                *)
(*   dialog    the message box shown last                                  *)
(*   log       the lines of log_text                                       *)
(*   workers   every DecodeWorker started, in order: its arguments, where  *)
(*             its run() stands, the signals it emitted                    *)
(*   queue     the signals emitted by worker threads and not yet handled   *)
(*             by the window's thread, in order                            *)
(*   inputs    the image files the user can pick: for each, and for each   *)
(*             password, what the for loop of run() comes to               *)
(***************************************************************************)
GuiEvLoading ==
    <<27491, 22312, 21152, 36733, 22270, 20687, 46, 46, 46>>
GuiEvExtracting ==
    <<27491, 22312, 25552, 21462, 38544, 20889, 25968, 25454, 46, 46, 46>>
GuiEvSaving ==
    <<27491, 22312, 20445, 23384, 25991, 20214, 46, 46, 46>>

\* the most DecodeWorker threads one behaviour starts
MaxRuns == 2

Progress(w, msg) == [w |-> w, name |-> "progress", arg |-> msg]
Finished(w, path, e, size) == [w |-> w, name |-> "finished", arg |-> <<path, e, size>>]
Failed(w, msg) == [w |-> w, name |-> "error", arg |-> msg]

\* the images a user decodes, and the passwords typed
GuiScenarios ==
    {Scn("gui", Hd(0, PwEmpty, ExtTxt, Utf8Encode(ExtTxt), <<65>>, 0, -1),
         TRUE, 0, 2, 13, 3, 0, 0),
     Scn("gui", Hd(1, Pw1, ExtTxt, Utf8Encode(ExtTxt), <<65>>, 0, -1),
         TRUE, 0, 2, 13, 8, 0, 0),
     Scn("gui", NoHd, FALSE, 0, 0, 1, 1, 0, 0)}
GuiPasswords == {PwEmpty, Pw1}

\* lines 44-58 of run(): the for loop over the depths and what follows it,
\* the payload of the first depth that succeeds or the error of the last
RunLoop(image, pw) ==
    LET first == FirstSuccess(image, pw, 1)
    IN  IF first = <<>>
        THEN [ok |-> FALSE, data |-> <<>>, ext |-> <<>>,
              err |-> RaisedError(<<Attempt(image, KS[Len(KS)], pw).err>>)]
        ELSE [ok |-> TRUE, data |-> first[1].pr.data, ext |-> first[1].pr.ext, err |-> ""]

GuiIdle == Scn("gui", NoHd, FALSE, 0, 0, 0, 0, 0, 0)

GuiInit ==
    /\ scn = GuiIdle
    /\ arr = [h |-> 0, w |-> 0, px |-> <<>>]
    /\ password = PwEmpty
    /\ pc = "window"
    /\ ki = 0
    /\ header = <<>>
    /\ raw = <<>>
    /\ ext = <<>>
    /\ last_err = <<>>
    /\ outcome = NoOutcome
    /\ dir_exists = FALSE
    /\ files = {}
    /\ attempts = <<>>
    /\ pcalls = <<>>
    /\ fcalls = <<>>
    /\ ncalls = 0
    /\ files0 = {}
    /\ app = NoApp
    /\ gui = [btn |-> TRUE, open_btn |-> FALSE, bar |-> "hidden", dialog |-> "none",
              log |-> <<>>, workers |-> <<>>, queue |-> <<>>,
              inputs |-> [x \in GuiScenarios \X GuiPasswords |->
                             RunLoop(ImageOf(x[1]), x[2])]]
    /\ droid = NoDroid

\* a start that leaves the decode button enabled (not what line 307 does)
AfterStart_ButtonStaysOn(g, s, pw) ==
    [g EXCEPT !.bar = "busy", !.open_btn = FALSE, !.log = <<"start", "output_dir">>,
              !.workers = Append(g.workers, [scn |-> s, pw |-> pw, pc |-> "started",
                                             emitted |-> <<>>, raw |-> <<>>, ext |-> <<>>])]

\* lines 306-322: the button is disabled, the log cleared, the worker started
AfterStart(g, s, pw) ==
    [g EXCEPT !.btn = FALSE, !.bar = "busy", !.open_btn = FALSE,
              !.log = <<"start", "output_dir">>,
              !.workers = Append(g.workers, [scn |-> s, pw |-> pw, pc |-> "started",
                                             emitted |-> <<>>, raw |-> <<>>, ext |-> <<>>])]

\* lines 294-322: start_decode, the slot of decode_btn.clicked; a disabled
\* button emits no clicked
StartDecode ==
    /\ pc = "window"
    /\ gui.btn
    /\ Len(gui.workers) < MaxRuns
    /\ \E input \in {"empty", "missing", "file"}, s \in GuiScenarios, pw \in GuiPasswords :
         gui' = IF input = "file" THEN AfterStart(gui, s, pw)
                ELSE [gui EXCEPT !.dialog = "warning"]
    /\ UNCHANGED <<app, droid, ncalls, files0, fcalls, scn, arr, password, pc, ki, header,
                   raw, ext, last_err, outcome, dir_exists, files, attempts, pcalls>>

\* worker w emits the signals sigs, which are queued for the window's thread,
\* and goes to pc
Emit(g, w, sigs, to) ==
    [g EXCEPT !.queue = g.queue \o sigs,
              !.workers[w].emitted = g.workers[w].emitted \o sigs,
              !.workers[w].pc = to]

\* lines 39-41 of run(): "loading", then Image.open, which may raise
WorkerLoad ==
    /\ pc = "window"
    /\ \E w \in 1..Len(gui.workers), loaded \in BOOLEAN :
         /\ gui.workers[w].pc = "started"
         /\ gui' = IF loaded
                   THEN Emit(gui, w, <<Progress(w, GuiEvLoading)>>, "loaded")
                   ELSE Emit(gui, w, <<Progress(w, GuiEvLoading), Failed(w, ErrIdentify)>>,
                             "exited")
    /\ UNCHANGED <<app, droid, ncalls, files0, fcalls, scn, arr, password, pc, ki, header,
                   raw, ext, last_err, outcome, dir_exists, files, attempts, pcalls>>

\* lines 43-58: "extracting", the for loop, the raise when no depth succeeded
WorkerExtract ==
    /\ pc = "window"
    /\ \E w \in 1..Len(gui.workers) :
         /\ gui.workers[w].pc = "loaded"
         /\ LET res == gui.inputs[<<gui.workers[w].scn, gui.workers[w].pw>>]
            IN  gui' = IF ~res.ok
                       THEN Emit(gui, w, <<Progress(w, GuiEvExtracting), Failed(w, res.err)>>,
                                 "exited")
                       ELSE [Emit(gui, w, <<Progress(w, GuiEvExtracting)>>, "extracted")
                                EXCEPT !.workers[w].raw = <<res.data>>,
                                       !.workers[w].ext = <<res.ext>>]
    /\ UNCHANGED <<app, droid, ncalls, files0, fcalls, scn, arr, password, pc, ki, header,
                   raw, ext, last_err, outcome, dir_exists, files, attempts, pcalls>>

\* lines 60-93: "saving", the save, any step of which may fail, then finished,
\* or error with the message of what was raised
WorkerSave ==
    /\ pc = "window"
    /\ \E w \in 1..Len(gui.workers) :
         /\ gui.workers[w].pc = "extracted"
         /\ LET e == gui.workers[w].ext[1]
            IN  \E n_ok \in 0..Len(SaveSteps(e)), png \in PngOutcomes :
                  /\ IF EndsWith(e, DotBinpng) /\ n_ok >= 3 THEN png # <<>> ELSE png = <<>>
                  /\ LET so == SaveOutcome(files, dir_exists, gui.workers[w].raw[1], e, n_ok,
                                           IF png = <<>> THEN <<>> ELSE png[1])
                     IN  /\ dir_exists' = so.dir
                         /\ files' = so.files
                         /\ gui' = Emit(gui, w,
                                        <<Progress(w, GuiEvSaving),
                                          IF so.outcome.kind = "return"
                                          THEN Finished(w, so.outcome.name, so.outcome.ext,
                                                        so.size[1])
                                          ELSE Failed(w, so.outcome.err)>>,
                                        "exited")
    /\ UNCHANGED <<app, droid, ncalls, files0, fcalls, scn, arr, password, pc, ki, header,
                   raw, ext, last_err, outcome, attempts, pcalls>>

\* lines 324-325
OnProgress(g, sig) == [g EXCEPT !.log = Append(g.log, "progress")]

\* lines 327-342
OnFinished(g, sig) ==
    [g EXCEPT !.bar = "done", !.btn = TRUE, !.open_btn = TRUE,
              !.log = g.log \o <<"rule", "success", "path", "type", "size">>,
              !.dialog = "information"]

\* an error slot that leaves the decode button disabled (not what line 346 does)
OnError_ButtonStaysOff(g, sig) ==
    [g EXCEPT !.bar = "hidden", !.log = g.log \o <<"rule", "error">>,
              !.dialog = "critical"]

\* lines 344-354
OnError(g, sig) ==
    [g EXCEPT !.bar = "hidden", !.btn = TRUE, !.log = g.log \o <<"rule", "error">>,
              !.dialog = "critical"]

\* the window's thread takes the oldest queued signal and runs the slot
\* connected to it (lines 319-321)
Deliver ==
    /\ pc = "window"
    /\ gui.queue # <<>>
    /\ LET sig == Head(gui.queue)
           g == [gui EXCEPT !.queue = Tail(gui.queue)]
       IN  gui' = CASE sig.name = "progress" -> OnProgress(g, sig)
                    [] sig.name = "finished" -> OnFinished(g, sig)
                    [] OTHER -> OnError(g, sig)
    /\ UNCHANGED <<app, droid, ncalls, files0, fcalls, scn, arr, password, pc, ki, header,
                   raw, ext, last_err, outcome, dir_exists, files, attempts, pcalls>>

WorkerStep == WorkerLoad \/ WorkerExtract \/ WorkerSave

GuiNext == StartDecode \/ WorkerLoad \/ WorkerExtract \/ WorkerSave \/ Deliver

\* a started thread runs run() to its end; the window's event loop handles
\* every queued signal
GuiSpec ==
    GuiInit /\ [][GuiNext]_vars /\ WF_vars(WorkerStep) /\ WF_vars(Deliver)


(***************************************************************************)
(* The Android file picker of main.py.  droid holds                        *)
(*   picker     whether the picker activity is open                        *)
(*   locals     for every on_activity_result closure bound so far, its     *)
(*              variable activity_result: <<>> is None, else               *)
(*              <<request_code, result_code>>                              *)
(*   attr       the attribute self._activity_result: <<>> when the object  *)
(*              has none, else <<request_code, result_code>>               *)
(*   intervals  the number of scheduled check_file_result intervals        *)
(*   selected   selected_file: <<>> is None                                *)
(*   fired      the arguments of the last on_activity_result call          *)
(*   tick       the calls of check_file_result since then, counted modulo  *)
(*              PollCycle                                                  *)
(***************************************************************************)
REQUEST_PICK == 1001
\* the request code of any other activity
REQUEST_OTHER == REQUEST_PICK - 1
RESULT_OK == -1
RESULT_CANCELED == RESULT_OK + 1

\* the most times select_file_android is called in one behaviour
MaxSelects == 3
\* check_file_result calls are counted modulo PollCycle
PollCycle == 4

TmpPng == <<116, 109, 112, 46, 112, 110, 103>>

DroidIdle == Scn("android", NoHd, FALSE, 0, 0, 0, 0, 0, 0)

DroidInit ==
    /\ scn = DroidIdle
    /\ arr = [h |-> 0, w |-> 0, px |-> <<>>]
    /\ password = PwEmpty
    /\ pc = "app"
    /\ ki = 0
    /\ header = <<>>
    /\ raw = <<>>
    /\ ext = <<>>
    /\ last_err = <<>>
    /\ outcome = NoOutcome
    /\ dir_exists = FALSE
    /\ files = {}
    /\ attempts = <<>>
    /\ pcalls = <<>>
    /\ fcalls = <<>>
    /\ ncalls = 0
    /\ files0 = {}
    /\ app = NoApp
    /\ gui = NoGui
    /\ droid = [picker |-> FALSE, locals |-> <<>>, attr |-> <<>>, intervals |-> 0,
                selected |-> <<>>, fired |-> <<>>, tick |-> 0]

\* lines 298-319: a closure with its own activity_result is bound, the picker
\* is started with request code 1001, an interval is scheduled
SelectFileAndroid ==
    /\ pc = "app"
    /\ ~droid.picker
    /\ Len(droid.locals) < MaxSelects
    /\ droid' = [droid EXCEPT !.locals = Append(droid.locals, <<>>),
                              !.picker = TRUE,
                              !.intervals = droid.intervals + 1]
    /\ UNCHANGED <<app, gui, ncalls, files0, fcalls, scn, arr, password, pc, ki, header,
                   raw, ext, last_err, outcome, dir_exists, files, attempts, pcalls>>

\* lines 306-308: the activity delivers a result, that of the picker or that
\* of another request; every bound closure stores it in its own variable
OnActivityResult ==
    /\ pc = "app"
    /\ droid.locals # <<>>
    /\ \E req \in {REQUEST_PICK, REQUEST_OTHER}, res \in {RESULT_OK, RESULT_CANCELED} :
         /\ req = REQUEST_PICK => droid.picker
         /\ droid' = [droid EXCEPT !.locals = [i \in 1..Len(droid.locals) |-> <<req, res>>],
                                   !.picker = IF req = REQUEST_PICK THEN FALSE ELSE droid.picker,
                                   !.fired = <<req, res>>,
                                   !.tick = 0]
    /\ UNCHANGED <<app, gui, ncalls, files0, fcalls, scn, arr, password, pc, ki, header,
                   raw, ext, last_err, outcome, dir_exists, files, attempts, pcalls>>

\* lines 321-359: one call by the Clock of one scheduled interval; returning
\* False unschedules it
CheckFileResult ==
    /\ pc = "app"
    /\ droid.intervals > 0
    /\ droid' = IF droid.attr # <<>> /\ droid.attr[1] = REQUEST_PICK
                THEN [droid EXCEPT !.selected = IF droid.attr[2] = RESULT_OK THEN <<TmpPng>>
                                                ELSE droid.selected,
                                   !.attr = <<>>,
                                   !.intervals = droid.intervals - 1,
                                   !.tick = (droid.tick + 1) % PollCycle]
                ELSE [droid EXCEPT !.tick = (droid.tick + 1) % PollCycle]
    /\ UNCHANGED <<app, gui, ncalls, files0, fcalls, scn, arr, password, pc, ki, header,
                   raw, ext, last_err, outcome, dir_exists, files, attempts, pcalls>>

DroidNext == SelectFileAndroid \/ OnActivityResult \/ CheckFileResult

\* the Clock calls a scheduled interval every 0.1 s for as long as it is
\* scheduled
DroidSpec == DroidInit /\ [][DroidNext]_vars /\ WF_vars(CheckFileResult)

(***************************************************************************)
(* Properties.                                                             *)
(***************************************************************************)
\* the decode call is past its for loop
PastLoop == scn.call = "decode" /\ pc \in {"check", "returned", "raised"}

\* the bitstream of the scenario fits the image at the depth it was written at
Fits(s) == LEN_PREFIX_BITS + 8 * Len(BuildHeader(s.hd)) <= Capacity(s.k, s.h, s.w)

\* the image of the scenario is a valid payload embedded whole by an encoder
IsEncoded(s) ==
    /\ s.call = "decode" /\ s.stream /\ s.pdelta = 0
    /\ s.hd.delta = 0 /\ s.hd.cut < 0
    /\ s.hd.extb = Utf8Encode(s.hd.ext)
    /\ \/ s.hd.flag = 0 /\ s.hd.encpwd = PwEmpty
       \/ s.hd.flag = 1 /\ s.hd.encpwd # PwEmpty
    /\ s.k \in {2, 6, 8}
    /\ Fits(s)

\* decode is called with the password the payload was protected with, if any
SamePassword == scn.hd.flag = 0 \/ password = scn.hd.encpwd

\* the payload the for loop left in raw and ext is the embedded one
Recovered == raw = <<scn.hd.data>> /\ ext = <<scn.hd.ext>>

\* C1 as claimed: a payload embedded at any depth of {2, 6, 8} is recovered,
\* data and extension, by decode called with the same password
C1_AnyPayloadRecovered ==
    (IsEncoded(scn) /\ SamePassword /\ PastLoop) => Recovered

\* C1 as amended: a payload embedded at depth k of {2, 6, 8} is recovered, data
\* and extension, by decode called with the same password, provided extraction
\* or header parsing failed at every depth tried before k (always so for k = 2)
C1_RecoveredUnlessEarlierDepthParses ==
    (/\ IsEncoded(scn) /\ SamePassword /\ PastLoop
     /\ \A i \in 1..Len(attempts) : attempts[i].k < scn.k => ~attempts[i].ok)
    => Recovered

\* a protected payload embedded at depth 8 has been recovered after depths 2 and 6 failed
C1_Witness ==
    /\ IsEncoded(scn) /\ SamePassword /\ pc = "returned"
    /\ scn.k = 8 /\ scn.hd.flag = 1 /\ Len(scn.hd.data) = MaxDataLen
    /\ Len(attempts) = 3 /\ Recovered

\* C2: the depths are tried in the order 2, 6, 8 and no other; a depth is tried
\* only after every earlier one failed; nothing is tried after a success, and
\* the payload kept is the one of the first depth that succeeded
C2_DepthOrder ==
    /\ Len(attempts) <= 3
    /\ \A i \in 1..Len(attempts) : attempts[i].k = <<2, 6, 8>>[i]
    /\ \A i \in 1..(Len(attempts) - 1) : ~attempts[i].ok
    /\ raw # <<>> =>
         /\ attempts # <<>> /\ attempts[Len(attempts)].ok
         /\ raw = <<attempts[Len(attempts)].pr.data>>
         /\ ext = <<attempts[Len(attempts)].pr.ext>>
         /\ pc # "loop"
    /\ (scn.call = "decode" /\ raw = <<>> /\ pc # "start") =>
         /\ \A i \in 1..Len(attempts) : ~attempts[i].ok
         /\ pc = "loop" => Len(attempts) < 3
         /\ pc # "loop" => Len(attempts) = 3

\* decode returned the depth-2 payload of an image whose depth-8 bitstream also
\* extracts and parses, and depths 6 and 8 were never tried
C2_Witness ==
    /\ pc = "returned" /\ Len(attempts) = 1 /\ attempts[1].k = 2
    /\ Attempt(arr, 8, password).ok
    /\ Attempt(arr, 8, password).pr.data # raw[1]

\* C3: when every depth fails, decode raises the error of depth 8, never the
\* errors of depths 2 and 6 in its place and never the DecodeFailed fallback
C3_LastErrorSurfaced ==
    (scn.call = "decode" /\ pc = "raised" /\ raw = <<>>) =>
        /\ Len(attempts) = 3
        /\ \A i \in 1..3 : ~attempts[i].ok
        /\ outcome.kind = "raise"
        /\ outcome.err = Attempt(arr, 8, password).err
        /\ outcome.err # ErrDecodeFailed

\* every depth failed, depth 2 for want of the password, depth 8 on its length prefix
C3_Witness ==
    /\ scn.call = "decode" /\ pc = "raised" /\ raw = <<>>
    /\ attempts[1].err = ErrPasswordRequired
    /\ attempts[3].err = ErrPayloadLength
    /\ outcome.err = ErrPayloadLength

(***************************************************************************)
(* _parse_header: the calls made so far, directly or by the for loop, and  *)
(* the layout of the blob they were handed (spec section 6).               *)
(***************************************************************************)
Parses ==
    {pcalls[i] : i \in 1..Len(pcalls)}
    \cup {[header |-> attempts[i].ex.header, password |-> password, res |-> attempts[i].pr] :
            i \in {j \in 1..Len(attempts) : attempts[j].parsed}}

\* the 1-based position of the ext_len byte
ExtLenAt(h) == IF h[1] = 1 THEN 1 + HASH_LEN + SALT_LEN + 1 ELSE 2

\* a field does not fit in the bytes that remain: no flag, no room for hash and
\* salt, no ext_len byte, or fewer than ext_len + 4 bytes after ext_len
Truncated(h) ==
    \/ Len(h) = 0
    \/ h[1] = 1 /\ Len(h) - 1 < HASH_LEN + SALT_LEN
    \/ Len(h) < ExtLenAt(h)
    \/ Len(h) - ExtLenAt(h) < h[ExtLenAt(h)] + 4

\* the fields of a blob that is not truncated
HashOf(h) == SubSeq(h, 2, 1 + HASH_LEN)
SaltOf(h) == SubSeq(h, 2 + HASH_LEN, 1 + HASH_LEN + SALT_LEN)
DataLenAt(h) == ExtLenAt(h) + h[ExtLenAt(h)] + 1
DataLenOf(h) == UnpackU32BE(SubSeq(h, DataLenAt(h), DataLenAt(h) + 3))
DataOf(h) == SubSeq(h, DataLenAt(h) + 4, Len(h))
WellFormed(h) == ~Truncated(h) /\ DataLenOf(h) = Len(DataOf(h))

\* SHA-256(password ++ hex(salt)) equals expected_hash
HashMatches(pw, h) == Sha256(Utf8Encode(pw \o Hex(SaltOf(h)))) = HashOf(h)

\* the blob was built whole from the scenario's header, its data_len honest
WholeHeader(h) == h = BuildHeader(scn.hd) /\ scn.hd.delta = 0 /\ scn.hd.cut < 0

\* C4: for a header whose flag is 1, parse returns data only if the password is
\* non-empty and SHA-256(password ++ hex(salt)) equals the stored hash; on a
\* well-formed header an empty password fails with PasswordRequired, even when
\* the stored hash is the hash of the empty password, and a non-empty password
\* whose hash differs fails with WrongPassword
C4_PasswordGate ==
    \A c \in Parses :
        (c.header # <<>> /\ c.header[1] = 1) =>
            /\ c.res.ok =>
                 /\ c.password # <<>>
                 /\ ~Truncated(c.header)
                 /\ HashMatches(c.password, c.header)
            /\ WellFormed(c.header) =>
                 /\ c.password = <<>> =>
                      (~c.res.ok /\ c.res.err = ErrPasswordRequired)
                 /\ (c.password # <<>> /\ ~HashMatches(c.password, c.header)) =>
                      (~c.res.ok /\ c.res.err = ErrWrongPassword)

\* the stored hash is the hash of the empty password, the empty password was
\* supplied, and parse failed with PasswordRequired
C4_Witness ==
    \E c \in Parses :
        /\ c.header # <<>> /\ c.header[1] = 1 /\ WellFormed(c.header)
        /\ c.password = <<>> /\ HashMatches(<<>>, c.header)
        /\ ~c.res.ok /\ c.res.err = ErrPasswordRequired

\* parse of a protected header with the password it was protected with returns
\* the plaintext, of the length of the data field, and the extension
DecryptsTo(c) ==
    /\ c.res.ok
    /\ c.res.data = scn.hd.data
    /\ Len(c.res.data) = Len(DataOf(c.header))
    /\ c.res.ext = scn.hd.ext

\* C5 as claimed: for a protected header whose data field is plaintext XOR
\* generate(password, salt, len(plaintext)) and whose hash matches the
\* password, parse with that password returns the plaintext and the extension
C5_MatchingPasswordDecrypts ==
    \A c \in Parses :
        (/\ WholeHeader(c.header) /\ scn.hd.flag = 1
         /\ c.password = scn.hd.encpwd)
        => DecryptsTo(c)

\* C5 as amended: the same, for a password that is not empty
C5_NonEmptyMatchingPasswordDecrypts ==
    \A c \in Parses :
        (/\ WholeHeader(c.header) /\ scn.hd.flag = 1
         /\ c.password = scn.hd.encpwd /\ c.password # <<>>)
        => DecryptsTo(c)

\* a protected header of the longest data was parsed with its two-character
\* password, and the plaintext returned differs from the bytes stored
C5_Witness ==
    \E c \in Parses :
        /\ WholeHeader(c.header) /\ scn.hd.flag = 1
        /\ c.password = scn.hd.encpwd /\ c.password = Pw2
        /\ Len(scn.hd.data) = MaxDataLen
        /\ DecryptsTo(c)
        /\ c.res.data # DataOf(c.header)

\* C6: for a header whose flag is 0, parse returns the data bytes as stored and
\* the extension, for every password
C6_UnprotectedReturnedAsStored ==
    \A c \in Parses :
        (c.header # <<>> /\ c.header[1] = 0 /\ WellFormed(c.header)) =>
            /\ c.res.ok
            /\ c.res.data = DataOf(c.header)
            /\ WholeHeader(c.header) =>
                 (c.res.data = scn.hd.data /\ c.res.ext = scn.hd.ext)
            /\ \A pw \in Passwords :
                 /\ ParseHeader(c.header, pw).ok
                 /\ ParseHeader(c.header, pw).data = c.res.data
                 /\ ParseHeader(c.header, pw).ext = c.res.ext

\* an unprotected header of the longest data was parsed with a non-empty
\* password and its data came back as stored
C6_Witness ==
    \E c \in Parses :
        /\ WholeHeader(c.header) /\ scn.hd.flag = 0
        /\ c.password = Pw2
        /\ Len(scn.hd.data) = MaxDataLen
        /\ c.res.ok /\ c.res.data = scn.hd.data /\ c.res.ext = scn.hd.ext

\* C7: parse fails with HeaderCorrupted on every truncated header, returns
\* nothing for it, and never reads past the end of the blob
C7_TruncatedHeaderCorrupted ==
    \A c \in Parses :
        /\ c.res.reads <= Len(c.header)
        /\ Truncated(c.header) => (~c.res.ok /\ c.res.err = ErrHeaderCorrupted)

\* a protected header with its hash, salt and ext_len but fewer than
\* ext_len + 4 bytes after ext_len failed with HeaderCorrupted
C7_Witness ==
    \E c \in Parses :
        /\ Len(c.header) > 1 + HASH_LEN + SALT_LEN + 1
        /\ c.header[1] = 1
        /\ c.header[ExtLenAt(c.header)] > 0
        /\ Len(c.header) - ExtLenAt(c.header) >= c.header[ExtLenAt(c.header)]
        /\ Truncated(c.header)
        /\ ~c.res.ok /\ c.res.err = ErrHeaderCorrupted

\* C8: parse succeeds only if data_len equals the number of bytes after it;
\* a shorter and a longer remainder both fail with DataLengthMismatch; a
\* returned payload has length data_len
C8_DataLenExact ==
    \A c \in Parses :
        ~Truncated(c.header) =>
            /\ c.res.ok =>
                 /\ DataLenOf(c.header) = Len(DataOf(c.header))
                 /\ Len(c.res.data) = DataLenOf(c.header)
            /\ DataLenOf(c.header) # Len(DataOf(c.header)) =>
                 (~c.res.ok /\ c.res.err = ErrDataLength)

\* a header with one byte more after data_len than data_len says failed with
\* DataLengthMismatch
C8_Witness ==
    \E c \in Parses :
        /\ ~Truncated(c.header)
        /\ Len(DataOf(c.header)) = DataLenOf(c.header) + 1
        /\ c.header = BuildHeader(scn.hd) /\ scn.hd.delta = -1
        /\ ~c.res.ok /\ c.res.err = ErrDataLength

(***************************************************************************)
(* _extract_payload_with_k: the length prefix and the mask.                *)
(***************************************************************************)
\* byte j (1-based) of the bits after the first skip bits
ByteAt(bits, skip, j) == BitsValue(bits, skip + 8 * (j - 1) + 1, 8)

\* the big-endian value of bits[0..32), capped like every 32-bit length here
HeaderLenOf(bits) ==
    IF ByteAt(bits, 0, 1) > 0 THEN U32_SATURATED
    ELSE ByteAt(bits, 0, 2) * 65536 + ByteAt(bits, 0, 3) * 256 + ByteAt(bits, 0, 4)

\* the attempt read the depth the scenario's bitstream was written at
AtEmbedDepth(at) == scn.call = "decode" /\ scn.stream /\ at.k = scn.k

\* C9: extraction at depth k returns a header blob only if the length prefix
\* header_len satisfies header_len > 0 and 32 + header_len*8 <= len(bits), and
\* fails with InvalidPayloadLength otherwise; the blob returned is header_len
\* bytes long and is packed from bits[32 .. 32 + header_len*8)
C9_LengthPrefixGate ==
    \A i \in 1..Len(attempts) :
        LET at == attempts[i]
            bits == ExtractBits(arr, at.k)
            header_len == HeaderLenOf(bits)
            fits == header_len > 0 /\ LEN_PREFIX_BITS + header_len * 8 <= at.ex.nbits
        IN  at.ex.nbits >= LEN_PREFIX_BITS =>
              /\ at.ex.ok <=> fits
              /\ ~fits => at.ex.err = ErrPayloadLength
              /\ at.ex.ok =>
                   /\ Len(at.ex.header) = header_len
                   /\ \A j \in 1..header_len :
                        at.ex.header[j] = ByteAt(bits, LEN_PREFIX_BITS, j)
              /\ AtEmbedDepth(at) =>
                   /\ at.ex.nbits = Capacity(scn.k, scn.h, scn.w)
                   /\ header_len = Len(BuildHeader(scn.hd)) + scn.pdelta
                   /\ (at.ex.ok /\ scn.cover = 0 /\ scn.step = 0) =>
                        at.ex.header = BuildHeader(scn.hd) \o [j \in 1..scn.pdelta |-> 0]

\* a header that ends on the last bit of the bitstream was returned whole
C9_Witness ==
    \E i \in 1..Len(attempts) :
        /\ AtEmbedDepth(attempts[i])
        /\ attempts[i].ex.ok
        /\ LEN_PREFIX_BITS + 8 * Len(attempts[i].ex.header) = attempts[i].ex.nbits
        /\ attempts[i].ex.header = BuildHeader(scn.hd) \o [j \in 1..scn.pdelta |-> 0]

\* the flat positions of the samples extraction reads
UsedSamples ==
    LET idxs == Idxs(arr.h, arr.w)
    IN  {idxs[j] : j \in 1..Len(idxs)}

\* the flat position of channel ch of pixel (r, c), as Idxs numbers them
FlatPos(r, c, ch) == (r * arr.w + c) * CHANNELS + ch + 1

\* the pixels of the image
Pixels == (0..(arr.h - 1)) \X (0..(arr.w - 1))

\* the pixels none of whose channels is read, and those all of whose channels are
SkippedPixels(used) ==
    {p \in Pixels : \A ch \in 0..(CHANNELS - 1) : FlatPos(p[1], p[2], ch) \notin used}
UsedPixels(used) ==
    {p \in Pixels : \A ch \in 0..(CHANNELS - 1) : FlatPos(p[1], p[2], ch) \in used}

\* the first depth has been read from the image
FirstExtractionDone == scn.call = "decode" /\ Len(attempts) = 1

\* C10 as claimed: a pixel (row, col) is excluded if and only if
\* row < height*0.08 and col < width*0.40; the three channels of an excluded
\* pixel are skipped and the three channels of every other pixel are used
C10_ExcludedBelowRatio ==
    FirstExtractionDone =>
        LET used == UsedSamples
            inside == {p \in Pixels : /\ 100 * p[1] < WATERMARK_SKIP_H_PCT * arr.h
                                      /\ 100 * p[2] < WATERMARK_SKIP_W_PCT * arr.w}
        IN  /\ SkippedPixels(used) = inside
            /\ UsedPixels(used) = Pixels \ inside
            /\ attempts[1].ex.nbits = Cardinality(used) * attempts[1].k

\* C10 as amended: a pixel (row, col) is excluded if and only if
\* row < floor(height*0.08) and col < floor(width*0.40); the three channels of
\* an excluded pixel are skipped and the three channels of every other pixel
\* are used
C10_ExcludedBelowFloorOfRatio ==
    FirstExtractionDone =>
        LET used == UsedSamples
            inside == {p \in Pixels : /\ p[1] < (WATERMARK_SKIP_H_PCT * arr.h) \div 100
                                      /\ p[2] < (WATERMARK_SKIP_W_PCT * arr.w) \div 100}
        IN  /\ SkippedPixels(used) = inside
            /\ UsedPixels(used) = Pixels \ inside
            /\ attempts[1].ex.nbits = Cardinality(used) * attempts[1].k

\* a 25 x 5 image was read: 2 x 2 pixels are excluded, 12 samples of 375
C10_Witness ==
    /\ FirstExtractionDone
    /\ arr.h = 25 /\ arr.w = 5
    /\ FlatPos(1, 1, 2) \notin UsedSamples
    /\ FlatPos(2, 0, 0) \in UsedSamples
    /\ FlatPos(0, 2, 0) \in UsedSamples
    /\ attempts[1].ex.nbits = (375 - 12) * attempts[1].k

(***************************************************************************)
(* decode_from_image on an image no encoder wrote into.                    *)
(***************************************************************************)
\* the image is a cover image: nothing was embedded in it
NoPayload == scn.call = "decode" /\ ~scn.stream

\* decode failed at the three depths with one of the two extraction errors
FailedOnExtraction ==
    /\ Len(attempts) = 3
    /\ \A i \in 1..3 : ~attempts[i].ok
    /\ raw = <<>>
    /\ last_err # <<>> /\ last_err[1] \in {ErrInsufficientData, ErrPayloadLength}
    /\ pc = "raised" => outcome.err \in {ErrInsufficientData, ErrPayloadLength}

\* the bits read at depth k do not start with a length prefix that fits
NoFittingPrefix(k) ==
    LET nbits == Len(Idxs(arr.h, arr.w)) * k
        header_len == HeaderLenOf(ExtractBits(arr, k))
    IN  \/ nbits < LEN_PREFIX_BITS
        \/ header_len = 0
        \/ LEN_PREFIX_BITS + 8 * header_len > nbits

C12_KeystreamPrefixConsistent ==
    \A i \in 1..Len(fcalls), j \in 1..Len(fcalls) :
        (/\ fcalls[i].fn = "generate" /\ fcalls[j].fn = "generate"
         /\ fcalls[i].pw = fcalls[j].pw /\ fcalls[i].salt = fcalls[j].salt
         /\ fcalls[i].n <= fcalls[j].n)
        => /\ Len(fcalls[i].out) = fcalls[i].n
           /\ Len(fcalls[j].out) = fcalls[j].n
           /\ fcalls[i].out = SubSeq(fcalls[j].out, 1, fcalls[i].n)

\* 33 bytes were generated, then bytes for another password, then 65 bytes for
\* the first one: the 33 bytes are the start of the 65, not of the others
C12_Witness ==
    /\ Len(fcalls) = 3
    /\ \A i \in 1..3 : fcalls[i].fn = "generate" /\ fcalls[i].salt = fcalls[1].salt
    /\ fcalls[1].pw = fcalls[3].pw /\ fcalls[2].pw # fcalls[1].pw
    /\ fcalls[1].n = HASH_LEN + 1
    /\ fcalls[2].n = 2 * HASH_LEN + 1
    /\ fcalls[3].n = 2 * HASH_LEN + 1
    /\ fcalls[1].out = SubSeq(fcalls[3].out, 1, HASH_LEN + 1)
    /\ fcalls[1].out # SubSeq(fcalls[2].out, 1, HASH_LEN + 1)

\* C13: for data and a keystream of the same length, the XOR has the length of
\* its input, and the XOR of its output with the same keystream is the data
C13_XorInvolution ==
    \A i \in 1..Len(fcalls) :
        (fcalls[i].fn = "xor" /\ Len(fcalls[i].a) = Len(fcalls[i].b)) =>
            /\ Len(fcalls[i].out) = Len(fcalls[i].a)
            /\ (i > 1 /\ fcalls[i].a = fcalls[i - 1].out /\ fcalls[i].b = fcalls[i - 1].b)
                 => fcalls[i].out = fcalls[i - 1].a

\* data of the longest length was XORed twice with a keystream that changes
\* every byte of it, and came back
C13_Witness ==
    /\ Len(fcalls) >= 2
    /\ fcalls[1].fn = "xor" /\ fcalls[2].fn = "xor"
    /\ Len(fcalls[1].a) = MaxDataLen
    /\ \A i \in 1..MaxDataLen : fcalls[1].out[i] # fcalls[1].a[i]
    /\ fcalls[2].a = fcalls[1].out /\ fcalls[2].b = fcalls[1].b
    /\ fcalls[2].out = fcalls[1].a

\* sample i (from 1) of a picture in raster (row, col, channel) order
SampleAt(img, i) ==
    LET w == Len(img[1])
        p == (i - 1) \div CHANNELS
    IN  img[(p \div w) + 1][(p % w) + 1][((i - 1) % CHANNELS) + 1]

\* C14: the binpng reinterpretation returns the samples of the picture in
\* raster order without the maximal trailing run of zero bytes: a prefix of the
\* flattened bytes that does not end in a zero byte, that every interior zero
\* byte is kept in, and that is empty when every byte is zero
C14_BinpngStripsTrailingZeros ==
    \A i \in 1..Len(fcalls) :
        fcalls[i].fn = "binpng" =>
            LET img == fcalls[i].img
                n == Len(img) * Len(img[1]) * CHANNELS
                out == fcalls[i].out
            IN  /\ Len(out) <= n
                /\ \A j \in 1..Len(out) : out[j] = SampleAt(img, j)
                /\ out # <<>> => out[Len(out)] # 0
                /\ \A j \in (Len(out) + 1)..n : SampleAt(img, j) = 0
                /\ (\A j \in 1..n : SampleAt(img, j) = 0) => out = <<>>

\* a picture of two rows whose samples are 7, 0, 7, 0, 0, 0 gave 7, 0, 7
C14_Witness ==
    \E i \in 1..Len(fcalls) :
        /\ fcalls[i].fn = "binpng"
        /\ fcalls[i].img = <<<<<<7, 0, 7>>>>, <<<<0, 0, 0>>>>>>
        /\ fcalls[i].out = <<7, 0, 7>>

\* C15 as claimed: the size string is "{n} bytes" for n < 1024, a kilobyte value
\* for 1024 <= n < 1048576, and a megabyte value for n >= 1048576
C15_SizeUnitByThreshold ==
    \A i \in 1..Len(fcalls) :
        fcalls[i].fn = "size" =>
            LET n == fcalls[i].n
                out == fcalls[i].out
            IN  /\ n < 1024 => out = DecimalStr(n) \o StrBytes
                /\ (1024 <= n /\ n < 1048576) => EndsWith(out, StrKB)
                /\ n >= 1048576 => EndsWith(out, StrMB)

(***************************************************************************)
(* decode_from_image: the files it leaves in the output directory.         *)
(***************************************************************************)
\* the call is over
CallOver == scn.call = "decode" /\ pc \in {"returned", "raised"}

\* a payload was found and its extension ends in ".binpng"
TookBinpngPath == scn.call = "decode" /\ raw # <<>> /\ EndsWith(ext[1], DotBinpng)

\* a payload was found, its extension does not end in ".binpng", and the call
\* returned
DirectReturned ==
    scn.call = "decode" /\ pc = "returned" /\ raw # <<>> /\ ~EndsWith(ext[1], DotBinpng)

\* the files of a set that bear a name
Named(fs, name) == {f \in fs : f.name = name}

DirectName(e) ==
    IF e # <<>> /\ e[1] = Dot THEN BaseName \o e ELSE BaseName \o <<Dot>> \o e

\* C17: after a successful decode of a payload with extension e, not binpng,
\* and data d, the output directory exists and holds one file duck_recovered.e,
\* the one returned, whose content is d whatever the directory held at that
\* name before the call; the other files are as they were
C17_DirectFileHoldsPayload ==
    DirectReturned =>
        /\ dir_exists
        /\ Named(files, DirectName(ext[1])) =
             {[name |-> DirectName(ext[1]), content |-> raw[1]]}
        /\ outcome.name = DirectName(ext[1])
        /\ files \ Named(files, DirectName(ext[1])) =
             files0 \ Named(files0, DirectName(ext[1]))

\* a second decode into the directory returned: the file of its name held the
\* longer payload of the first decode and now holds the second payload alone
C17_Witness ==
    /\ DirectReturned /\ ncalls = 2
    /\ \E f \in files0 :
         /\ f.name = DirectName(ext[1])
         /\ Len(f.content) > Len(raw[1])
         /\ f \notin files
    /\ Named(files, DirectName(ext[1])) =
         {[name |-> DirectName(ext[1]), content |-> raw[1]]}

\* C18 as claimed: for every declared extension of a payload that is not
\* binpng, the path returned is duck_recovered + "." + the extension returned,
\* and the extension returned does not start with "."
C18_OneDotInNameNoneInExtension ==
    DirectReturned =>
        /\ outcome.name = BaseName \o <<Dot>> \o outcome.ext
        /\ outcome.ext = <<>> \/ outcome.ext[1] # Dot

(***************************************************************************)
(* _extract_payload_with_k: the bitstream.                                 *)
(***************************************************************************)
\* the attempt made last
LastAttempt == attempts[Len(attempts)]

\* C19: extraction at depth k fails with InsufficientData exactly when the
\* bitstream has fewer than 32 bits; a bitstream shorter than 32 bits never
\* yields InvalidPayloadLength
C19_InsufficientIffUnder32Bits ==
    \A i \in 1..Len(attempts) :
        LET at == attempts[i]
            short == Capacity(at.k, arr.h, arr.w) < 32
        IN  /\ at.ex.nbits = Capacity(at.k, arr.h, arr.w)
            /\ (~at.ex.ok /\ at.ex.err = ErrInsufficientData) <=> short
            /\ short => (~at.ex.ok /\ at.ex.err # ErrPayloadLength)

\* in a 1 x 2 image depth 2 reads 12 bits and fails with InsufficientData;
\* depth 6 reads 36 bits and does not
C19_Witness ==
    /\ Len(attempts) >= 2
    /\ arr.h = 1 /\ arr.w = 2
    /\ attempts[1].k = 2 /\ attempts[1].ex.nbits = 12
    /\ attempts[1].ex.err = ErrInsufficientData
    /\ attempts[2].k = 6 /\ attempts[2].ex.nbits = 36
    /\ attempts[2].ex.err # ErrInsufficientData

\* the position in px (from 1) of the j-th sample outside the rectangle, in
\* raster (row, col, channel) order: the rows that cross the rectangle keep
\* their columns from its right edge on, the rows below it keep them all
PosOfRank(h, w, j) ==
    LET sh == (8 * h) \div 100
        sw == (40 * w) \div 100
        p == (j - 1) \div CHANNELS
        top == sh * (w - sw)
        r == IF p < top THEN p \div (w - sw) ELSE sh + ((p - top) \div w)
        c == IF p < top THEN sw + (p % (w - sw)) ELSE (p - top) % w
    IN  (r * w + c) * CHANNELS + ((j - 1) % CHANNELS) + 1

\* bit t (from 1) of the low k bits of a sample, the most significant first
LowBit(v, k, t) == (v \div 2^(k - t)) % 2

\* one group of k bits per sample outside the rectangle, in raster order
GroupedBits(k) ==
    [x \in 1..Capacity(k, arr.h, arr.w) |->
        LowBit(arr.px[PosOfRank(arr.h, arr.w, ((x - 1) \div k) + 1)], k, ((x - 1) % k) + 1)]

\* the sample bytes outside the rectangle, in raster order
UnmaskedBytes ==
    [j \in 1..Capacity(1, arr.h, arr.w) |-> arr.px[PosOfRank(arr.h, arr.w, j)]]

\* a depth has just been read
JustExtracted == scn.call = "decode" /\ attempts # <<>> /\ pc \in {"loop", "check"}

\* C20: the bitstream extracted at depth k is one group of k bits for each
\* sample outside the rectangle, in raster (row, col, channel) order, the group
\* being the low k bits of the sample, most significant first; at depth 8 the
\* bytes of the bitstream are the samples
C20_BitstreamIsLowBitsInRasterOrder ==
    JustExtracted =>
        LET k == LastAttempt.k
            bits == ExtractBits(arr, k)
        IN  /\ LastAttempt.ex.nbits = Capacity(k, arr.h, arr.w)
            /\ bits = GroupedBits(k)
            /\ k = 8 => PackBitsAt(bits, 0, Capacity(1, arr.h, arr.w)) = UnmaskedBytes

\* depth 6 was read from a 13-row image that has a masked pixel and a sample
\* after it whose low 6 bits are neither all 0 nor all 1
C20_Witness ==
    /\ JustExtracted /\ Len(attempts) = 2 /\ LastAttempt.k = 6
    /\ arr.h = 13
    /\ SampleRank(arr.h, arr.w, 1) = 0
    /\ PosOfRank(arr.h, arr.w, 1) = CHANNELS + 1
    /\ \E j \in 2..Capacity(1, arr.h, arr.w) :
         /\ arr.px[PosOfRank(arr.h, arr.w, j)] % 64 \notin {0, 63}
         /\ \A t \in 1..6 :
              ExtractBits(arr, 6)[(j - 1) * 6 + t] =
                LowBit(arr.px[PosOfRank(arr.h, arr.w, j)], 6, t)

\* SHA-256(material ++ decimal_ascii(counter))
Block(pw, salt, counter) ==
    Sha256(KeyMaterial(pw, salt) \o Utf8Encode(DecimalStr(counter)))

\* the blocks of counters 0, 1, ..., m - 1, one after the other
RECURSIVE Blocks(_, _, _)
Blocks(pw, salt, m) ==
    IF m = 0 THEN <<>> ELSE Blocks(pw, salt, m - 1) \o Block(pw, salt, m - 1)

\* byte i (from 1) of SHA-256(material ++ "0") ++ SHA-256(material ++ "1") ++ ...
BlockByte(pw, salt, i) == Block(pw, salt, (i - 1) \div HASH_LEN)[((i - 1) % HASH_LEN) + 1]

\* ceil(n / 32)
BlocksFor(n) == (n + HASH_LEN - 1) \div HASH_LEN

\* C21: generate(password, salt, length) returns exactly length bytes, the first
\* length bytes of SHA-256(material ++ "0") ++ SHA-256(material ++ "1") ++ ...;
\* its loop ends after exactly ceil(length/32) blocks, none for length 0
C21_KeystreamBlocks ==
    (fcalls # <<>> /\ fcalls[Len(fcalls)].fn = "generate") =>
        LET c == fcalls[Len(fcalls)]
            stream == Blocks(c.pw, c.salt, BlocksFor(c.n))
        IN  /\ Len(c.out) = c.n
            /\ c.out = SubSeq(stream, 1, c.n)
            /\ Len(c.b) = HASH_LEN * BlocksFor(c.n)
            /\ c.n = 0 => c.b = <<>>

\* 65 bytes were generated from three blocks; the last byte is the first byte
\* of the block of counter 2, which differs from the first byte of block 0
C21_Witness ==
    \E i \in 1..Len(fcalls) :
        /\ fcalls[i].fn = "generate"
        /\ fcalls[i].n = 2 * HASH_LEN + 1
        /\ Len(fcalls[i].b) = 3 * HASH_LEN
        /\ Len(fcalls[i].out) = 2 * HASH_LEN + 1
        /\ fcalls[i].out[2 * HASH_LEN + 1] = BlockByte(fcalls[i].pw, fcalls[i].salt, 2 * HASH_LEN + 1)
        /\ fcalls[i].out[2 * HASH_LEN + 1] # fcalls[i].out[1]

(***************************************************************************)
(* DecodeLogic.decode: progress events and I/O failures.                   *)
(***************************************************************************)
LogicOver == scn.call = "logic" /\ pc \in {"returned", "raised"}

IsPrefix(s, t) == Len(s) <= Len(t) /\ s = SubSeq(t, 1, Len(s))

\* what a call does to the world and hands back, as a function of the image,
\* the password, the output directory and what the I/O steps did; the callback
\* is not among its arguments
DecodeResult(image, pw, fs, dir, io) ==
    IF ~io[1]
    THEN [outcome |-> Raised(ErrOpenImage), files |-> fs, dir |-> dir, size |-> <<>>]
    ELSE LET first == FirstSuccess(image, pw, 1)
         IN  IF first = <<>>
             THEN [outcome |-> Raised(Attempt(image, KS[Len(KS)], pw).err),
                   files |-> fs, dir |-> dir, size |-> <<>>]
             ELSE LET so == SaveOutcome(fs, dir, first[1].pr.data, first[1].pr.ext, io[2],
                                        IF io[3] = <<>> THEN <<>> ELSE io[3][1])
                  IN  [outcome |-> so.outcome, files |-> so.files, dir |-> so.dir,
                       size |-> so.size]

\* C22: with a callback the events are loading, extracting, saving, in that
\* order and each at most once; extracting is sent once, before the first
\* depth is tried, and nothing is sent while the depths are tried; saving is
\* sent only after a depth succeeded, so a call that fails at all depths sent
\* loading and extracting only.  Without a callback nothing is sent, and what
\* the call returns or raises and what it leaves in the output directory is
\* determined by the image, the password and the I/O alone.
C22_ProgressEvents ==
    scn.call = "logic" =>
        /\ IsPrefix(app.events, <<EvLoading, EvExtracting, EvSaving>>)
        /\ ~app.callback => app.events = <<>>
        /\ (app.callback /\ pc = "loop") => app.events = <<EvLoading, EvExtracting>>
        /\ (app.callback /\ attempts # <<>>) => Len(app.events) >= 2
        /\ (\E i \in 1..Len(app.events) : app.events[i] = EvSaving) =>
               /\ raw # <<>>
               /\ attempts # <<>> /\ attempts[Len(attempts)].ok
        /\ (app.callback /\ pc = "check" /\ raw # <<>>) =>
               app.events = <<EvLoading, EvExtracting>>
        /\ (app.callback /\ pc \in {"check", "raised"} /\ raw = <<>> /\ attempts # <<>>) =>
               /\ Len(attempts) = Len(KS)
               /\ app.events = <<EvLoading, EvExtracting>>
        /\ (app.callback /\ LogicOver /\ raw # <<>>) =>
               app.events = <<EvLoading, EvExtracting, EvSaving>>
        /\ LogicOver =>
               LET res == DecodeResult(arr, password, {}, FALSE, app.io)
               IN  /\ outcome = res.outcome
                   /\ files = res.files
                   /\ dir_exists = res.dir
                   /\ app.size = res.size

\* a call with a callback that returned after two depths failed and the third
\* succeeded: extracting was sent once
C22_Witness ==
    /\ scn.call = "logic" /\ app.callback /\ pc = "returned"
    /\ Len(attempts) = Len(KS)
    /\ app.events = <<EvLoading, EvExtracting, EvSaving>>

\* an I/O step of the call failed: Image.open, or one of the steps of the save
IoFailed ==
    /\ LogicOver
    /\ \/ app.io = <<FALSE>>
       \/ Len(app.io) = 3 /\ app.io[2] < Len(SaveSteps(ext[1]))

FailedStep == app.steps[Len(app.steps)]

\* C23: when Image.open, makedirs, a write, the reinterpretation of the binpng
\* file or the unlink fails, the call raises that failure, not the remembered
\* last_err; the steps that ran are the steps up to the failing one, each once;
\* nothing a later step would have done is done; no depth is tried after it.
C23_IoFailureAborts ==
    IoFailed =>
        LET order == <<StepLoad>> \o (IF raw = <<>> THEN <<>> ELSE SaveSteps(ext[1]))
            n == Len(app.steps)
            tmp == Named(files, BaseName \o DotBinpng)
            mp4 == Named(files, BaseName \o DotMp4)
        IN  /\ pc = "raised" /\ outcome.kind = "raise"
            /\ outcome.err = StepError(FailedStep)
            /\ last_err # <<>> => outcome.err # last_err[1]
            /\ app.steps = SubSeq(order, 1, n)
            /\ \A i, j \in 1..n : app.steps[i] = app.steps[j] => i = j
            /\ app.size = <<>>
            /\ FailedStep = StepLoad =>
                   attempts = <<>> /\ ~dir_exists /\ files = {} /\ Len(app.events) <= 1
            /\ FailedStep # StepLoad =>
                   /\ attempts[Len(attempts)].ok
                   /\ \A i \in 1..(Len(attempts) - 1) : ~attempts[i].ok
                   /\ Len(attempts) = ki
            /\ FailedStep = StepMakedirs => ~dir_exists /\ files = {}
            /\ FailedStep = StepWriteTmp => mp4 = {}
            /\ FailedStep = StepReinterpret => tmp # {} /\ mp4 = {}
            /\ FailedStep = StepUnlink => tmp # {} /\ mp4 = {}

\* the unlink failed after two depths had failed and the third had succeeded
C23_Witness ==
    /\ IoFailed /\ FailedStep = StepUnlink
    /\ Len(attempts) = Len(KS) /\ last_err # <<>>
    /\ outcome.err = ErrUnlink

(***************************************************************************)
(* A call that fails at every depth.                                       *)
(***************************************************************************)
AllDepthsFailed ==
    /\ scn.call = "decode" /\ pc = "raised" /\ raw = <<>>
    /\ Len(attempts) = Len(KS)
    /\ \A i \in 1..Len(attempts) : ~attempts[i].ok

\* C24: a call that fails at all three depths leaves the output directory as
\* it found it: the files are those that were there when the call started, no
\* duck_recovered file or temporary file is added or rewritten, and a directory
\* that did not exist is not created.
C24_FailureLeavesFilesystem ==
    AllDepthsFailed =>
        /\ files = files0
        /\ files0 = {} => ~dir_exists
        /\ ncalls = 1 => (files = {} /\ ~dir_exists)

\* a second call that failed at all depths, into a directory that held the
\* file of the first call
C24_Witness ==
    /\ AllDepthsFailed /\ ncalls = 2
    /\ files0 # {} /\ files = files0 /\ dir_exists

(***************************************************************************)
(* The order of the checks of _parse_header.                               *)
(***************************************************************************)
PasswordErrors == {ErrPasswordRequired, ErrWrongPassword}

\* a protected header whose fields all fit and whose data_len is not the
\* number of bytes that follow it
ProtectedMismatch(h) == ~Truncated(h) /\ h[1] = 1 /\ DataLenOf(h) # Len(DataOf(h))

\* C25: the structural checks come before the data length check, which comes
\* before the password checks, PasswordRequired before WrongPassword: a header
\* with a field that does not fit never fails with DataLengthMismatch or a
\* password error; a protected header whose data_len does not match fails with
\* DataLengthMismatch under the password given and under every other password,
\* empty, wrong or right; a password error is raised only for a well-formed
\* header, PasswordRequired for the empty password and WrongPassword otherwise.
C25_CheckOrder ==
    \A p \in Parses :
        LET h == p.header
        IN  /\ Truncated(h) =>
                ~p.res.ok /\ p.res.err \notin ({ErrDataLength} \cup PasswordErrors)
            /\ ProtectedMismatch(h) =>
                /\ ~p.res.ok /\ p.res.err = ErrDataLength
                /\ \A pw \in Passwords :
                       LET r == ParseHeader(h, pw)
                       IN  ~r.ok /\ r.err = ErrDataLength
            /\ (~p.res.ok /\ p.res.err \in PasswordErrors) =>
                /\ WellFormed(h) /\ h[1] = 1
                /\ p.res.err = ErrPasswordRequired <=> p.password = <<>>
                /\ p.res.err = ErrWrongPassword => ~HashMatches(p.password, h)

\* a protected header with one byte more than its data_len says, parsed with
\* the password it was protected with
C25_Witness ==
    \E p \in Parses :
        /\ ProtectedMismatch(p.header) /\ scn.hd.delta = -1
        /\ p.password # <<>> /\ HashMatches(p.password, p.header)
        /\ p.res.err = ErrDataLength

(***************************************************************************)
(* The flag of _parse_header.                                              *)
(***************************************************************************)
\* the header read with ext_len at offset 1: the extension bytes, the data_len
\* field and the data, when they fit
PlainFits(h) == Len(h) >= 2 /\ Len(h) - 2 >= h[2] + 4
PlainExt(h) == Utf8DecodeIgnore(SubSeq(h, 3, 2 + h[2]))
PlainDataLen(h) == UnpackU32BE(SubSeq(h, 3 + h[2], 6 + h[2]))
PlainData(h) == SubSeq(h, 7 + h[2], Len(h))

\* C26: a header whose first byte is not 1 is parsed as unprotected, whatever
\* the byte is: ext_len is the byte at offset 1, no hash or salt is skipped,
\* and when the fields fit and data_len matches the bytes after it are returned
\* as they are; no password error is raised and the result is the same under
\* every password.
C26_ProtectedOnlyWhenFlagIsOne ==
    \A p \in Parses :
        LET h == p.header
        IN  (Len(h) >= 1 /\ h[1] # 1) =>
                /\ p.res.err \notin PasswordErrors
                /\ \A pw \in Passwords : ParseHeader(h, pw) = p.res
                /\ (PlainFits(h) /\ PlainDataLen(h) = Len(PlainData(h))) =>
                       /\ p.res.ok
                       /\ p.res.ext = PlainExt(h)
                       /\ p.res.data = PlainData(h)
                /\ (PlainFits(h) /\ PlainDataLen(h) # Len(PlainData(h))) =>
                       ~p.res.ok /\ p.res.err = ErrDataLength
                /\ ~PlainFits(h) => ~p.res.ok /\ p.res.err = ErrHeaderCorrupted

\* a header with first byte 255 parsed with a password: its data comes back
C26_Witness ==
    \E p \in Parses :
        /\ p.header[1] = 255 /\ p.password # <<>>
        /\ p.res.ok /\ p.res.data # <<>> /\ p.res.data = PlainData(p.header)

(***************************************************************************)
(* The choice between the two ways of saving.                              *)
(***************************************************************************)
\* the last seven characters of e are ".binpng"
HasDotBinpngSuffix(e) ==
    Len(e) >= 7 /\ SubSeq(e, Len(e) - 6, Len(e)) = <<46, 98, 105, 110, 112, 110, 103>>

\* what a picture read back from the temporary file can give
Reinterpreted == {RStripZeros(p[1]) : p \in PngOutcomes \ {<<>>}}

\* C27: a payload is saved by way of the picture exactly when its extension
\* ends with ".binpng", the dot included: then the call that returns wrote
\* duck_recovered.mp4 with the bytes read back from the picture and returned
\* the extension "mp4"; any other payload is written as it is under its own
\* extension, and the extension "binpng" gives duck_recovered.binpng holding
\* the payload unchanged.
C27_BinpngPathBySuffix ==
    (CallOver /\ raw # <<>>) =>
        LET e == ext[1]
            mp4 == Named(files, BaseName \o DotMp4)
        IN  /\ HasDotBinpngSuffix(e) =>
                /\ pc = "returned" =>
                       /\ outcome.name = BaseName \o DotMp4 /\ outcome.ext = Mp4
                       /\ outcome.data \in Reinterpreted
                       /\ mp4 = {[name |-> BaseName \o DotMp4, content |-> outcome.data]}
                /\ pc = "raised" => outcome.err = "cannot identify image file"
            /\ ~HasDotBinpngSuffix(e) =>
                /\ pc = "returned"
                /\ outcome.name = BaseName \o (IF e # <<>> /\ e[1] = 46 THEN e ELSE <<46>> \o e)
                /\ outcome.data = raw[1]
                /\ Named(files, outcome.name) =
                       {[name |-> outcome.name, content |-> raw[1]]}
                /\ Named(files, BaseName \o DotMp4) = Named(files0, BaseName \o DotMp4)
            /\ e = ExtBinpngNoDot =>
                /\ outcome.name = BaseName \o DotBinpng /\ outcome.ext = ExtBinpngNoDot
                /\ Named(files, BaseName \o DotBinpng) =
                       {[name |-> BaseName \o DotBinpng, content |-> raw[1]]}

\* the extension "binpng" was saved as it is, and the extension "a.binpng" by
\* way of the picture
C27_WitnessNoDot ==
    /\ CallOver /\ pc = "returned" /\ raw # <<>> /\ ext[1] = ExtBinpngNoDot
    /\ outcome.name = BaseName \o DotBinpng /\ outcome.data = raw[1]

C27_Witness ==
    /\ CallOver /\ pc = "returned" /\ raw # <<>> /\ ext[1] = ExtABinpng
    /\ outcome.name = BaseName \o DotMp4 /\ outcome.ext = Mp4
    /\ outcome.data # raw[1]

(***************************************************************************)
(* SafeDecodeLogic.decode: the message of a failed decode.                 *)
(***************************************************************************)
SafeOver == scn.call = "safe" /\ pc \in {"returned", "raised"}

\* some depth failed because the payload needs a password or the password is
\* wrong
PasswordFailureAt(i) ==
    /\ i \in 1..Len(attempts)
    /\ attempts[i].parsed /\ ~attempts[i].ok
    /\ attempts[i].err \in PasswordErrors

\* C28: when the call fails at all depths and at some depth the parse failed
\* on the password, missing or wrong, the exception raised carries the
\* password message of line 522.
C28_PasswordFailureReported ==
    (SafeOver /\ pc = "raised" /\ raw = <<>> /\ \E i \in 1..Len(attempts) : PasswordFailureAt(i)) =>
        outcome.err = SafePreDecode \o SafeErrPassword

\* what the code does: the password message is raised exactly when the
\* message of the last depth, 8, mentions the password
C28_PasswordMessageIffLastDepth ==
    (SafeOver /\ pc = "raised" /\ raw = <<>> /\ Len(attempts) = Len(KS)) =>
        /\ outcome.err = SafePreDecode \o SafeErrPassword <=> PasswordFailureAt(Len(KS))
        /\ ~PasswordFailureAt(Len(KS)) =>
               outcome.err = SafePreDecode \o SafePreFailed \o SafeAttemptMsg(attempts[Len(KS)])

\* a protected payload at depth 2, no password given: the message is that of
\* the extraction at depth 8
C28_Witness ==
    /\ SafeOver /\ pc = "raised" /\ scn.k = 2 /\ scn.hd.flag = 1 /\ password = <<>>
    /\ PasswordFailureAt(1) /\ ~PasswordFailureAt(Len(KS))
    /\ outcome.err = SafePreDecode \o SafePreFailed \o SafePreExtract \o SafeErrLength

(***************************************************************************)
(* The desktop window: one worker at a time.                               *)
(***************************************************************************)
Running == {w \in 1..Len(gui.workers) : gui.workers[w].pc # "exited"}

Terminal(sig) == sig.name \in {"finished", "error"}

TerminalsOf(sigs) == {i \in 1..Len(sigs) : Terminal(sigs[i])}

\* at most one worker is in run(); a worker in run() has emitted progress
\* signals only; a worker whose run() is over emitted exactly one of finished
\* and error, after its progress signals; the button is enabled only when no
\* worker is in run() and every finished and error was handled, and disabled
\* only while a worker is in run() or its finished or error waits
OneWorker ==
    /\ Cardinality(Running) <= 1
    /\ \A w \in 1..Len(gui.workers) :
         LET sigs == gui.workers[w].emitted
         IN  IF w \in Running
             THEN TerminalsOf(sigs) = {}
             ELSE TerminalsOf(sigs) = {Len(sigs)} /\ Len(sigs) >= 2
    /\ gui.btn <=> (Running = {} /\ TerminalsOf(gui.queue) = {})

\* a worker is started only with the button disabled, and the button is
\* enabled only by on_finished or on_error handling a worker's signal
ButtonSteps ==
    /\ Len(gui'.workers) > Len(gui.workers) => (gui.btn /\ ~gui'.btn)
    /\ (~gui.btn /\ gui'.btn) =>
           /\ gui.queue # <<>> /\ Terminal(Head(gui.queue))
           /\ gui'.queue = Tail(gui.queue)

\* C29: at most one DecodeWorker runs at a time: start_decode disables the
\* button before the worker starts, every run emits exactly one of finished
\* and error after its progress signals, only on_finished and on_error enable
\* the button again, and a disabled button is always enabled again.
C29_OneWorkerAndButtonReturns ==
    /\ []OneWorker
    /\ [][ButtonSteps]_vars
    /\ (~gui.btn) ~> gui.btn

\* a second worker runs after the first ended with error and the button came
\* back
C29_Witness ==
    /\ pc = "window" /\ Len(gui.workers) = 2 /\ ~gui.btn
    /\ gui.workers[1].pc = "exited"
    /\ gui.workers[1].emitted[Len(gui.workers[1].emitted)].name = "error"
    /\ gui.workers[2].pc = "extracted"

(***************************************************************************)
(* The Android file picker: polling for the result.                        *)
(***************************************************************************)
PickFired == droid.fired # <<>> /\ droid.fired[1] = REQUEST_PICK

PickOk == PickFired /\ droid.fired[2] = RESULT_OK

\* C30: once on_activity_result was called with request code 1001,
\* check_file_result eventually sees that result: it stops the polling, no
\* interval stays scheduled, and selected_file is set when the result code is
\* RESULT_OK.
C30_PickedResultObserved ==
    PickFired ~>
        /\ droid.intervals = 0
        /\ (PickOk => droid.selected # <<>>)

\* what the code does: on_activity_result stores the result in the variable
\* of its closure and nothing sets the attribute check_file_result reads, so
\* every interval scheduled stays scheduled and selected_file stays None
C30_PollingNeverStops ==
    pc = "app" =>
        /\ droid.attr = <<>>
        /\ droid.selected = <<>>
        /\ droid.intervals = Len(droid.locals)

\* the picker returned an image, check_file_result ran three times since, and
\* nothing was selected
C30_Witness ==
    /\ pc = "app" /\ PickOk
    /\ droid.locals[1] = <<REQUEST_PICK, RESULT_OK>>
    /\ droid.tick = PollCycle - 1
    /\ droid.selected = <<>> /\ droid.intervals > 0

=============================================================================
